---- MODULE Spec2Model ----
(***************************************************************************)
(* Remote Session Gateway of the Personal Agent: the WebSocket server      *)
(* (RemoteServer), the PTY pool (PTYManager) and the process-wide          *)
(* sessionOwnership map, as a state machine.  One action per handler.      *)
(*                                                                         *)
(* Spec      routing: authenticated connections, PTY frames, PTY events,   *)
(*           the renderer's IPC calls.                                     *)
(* SpecAuth  the handshake: token check, auth timer, close codes.          *)
(* SpecOrigin   the address filter at accept.                              *)
(* SpecReq      frames that carry a requestId, and their replies.          *)
(* SpecSvc      the ServiceManager: start, stop, restart, exit, timers.    *)
(* SpecExit     Spec with the exit event of a killed PTY delivered.        *)
(* SpecPool     the options of create and the sizes of resize.             *)
(* SpecGateway  regeneration of the token: close and a new RemoteServer.   *)
(* SpecWire     the messages sent on each connection, in order.            *)
(* SpecFanout   service subscriptions, status and output events.           *)
(* SpecShutdown PersonalAgent.shutdown.                                    *)
(* SpecChild    the children of a service: kill failures, orphans.         *)
(* SpecOwner    two devices, the creator of each session kept.             *)
(* SpecGate     frames and events around a connection not authenticated.   *)
(* SpecSlow     a client that has stopped reading its socket.              *)
(* SpecRegen    overlapping token and certificate regenerations.           *)
(***************************************************************************)
EXTENDS Integers, FiniteSets, Sequences, TLC

(* ------------------------------ bounds --------------------------------- *)
\* PTY sessions created over a run; each gets a fresh id (uuidv4)
MaxSessions == 1
\* regenerations of the auth token over a run
MaxRegenerations == 1
\* chunks of output of one PTY that are followed to the clients
MaxChunks == 2
\* messages of one connection that are kept in the record of what it was sent
MaxWire == 3
\* auto-restart timers of one service pending at a time
MaxRestartTimers == 1
\* stopService promises of one service waiting for the child's exit at a time
MaxStopWaiters == 1
\* live children of one service whose handle service.process no longer holds
MaxOrphans == 1
\* forwarded events ws.send has queued on one socket whose peer has stopped
\* reading, up to which a PTY's output is followed
MaxBuffered == 3
\* times each of the two regeneration handlers is invoked
MaxInvocations == 2

(* ------------------------- program constants --------------------------- *)
CloseNotAllowed == 4000
CloseAuthTimeout == 4001
CloseInvalidToken == 4003

(* ------------------------------ inputs --------------------------------- *)
\* connection ids (uuidv4): two connections are alive at a time, and an id is
\* handed out again only when nothing in the state refers to it any more
ConnIds == {1, 2}
SessionIds == 1..MaxSessions
\* payload.clientId presented in an auth frame; NoClientId: the field is absent
DevA == 101
NoClientId == 0
ClientIdInputs == {DevA, NoClientId}
\* the server's token and the candidates presented: equal, shorter, same
\* length with one byte differing, longer
ServerToken == <<7, 9>>
\* the token in force after g regenerations
TokenOf(g) == <<7 + g, 9>>
TokenInputs == {<<7, 9>>, <<7>>, <<7, 8>>, <<7, 9, 9>>}
\* cols / rows carried by a resize frame; 0 also stands for an absent field
DimInputs == {0, 1}

\* wider cols / rows of the PTY pool's specification: negative, zero or absent,
\* positive
WideDimInputs == {-1, 0, 2}

\* a JSON value of the shell or cwd option: absent, a string (text: the whole
\* string; chars: its characters, for a path that is inspected), or a number
Absent == [kind |-> "absent", text |-> "", chars |-> <<>>]
Str(text, chars) == [kind |-> "string", text |-> text, chars |-> chars]
Num == [kind |-> "number", text |-> "", chars |-> <<>>]

\* shells supplied: none, allow-listed ones, a short name, a path off the list
ShellInputs ==
    {Absent, Str("/bin/zsh", <<>>), Str("/bin/bash", <<>>), Str("zsh", <<>>),
     Str("/usr/bin/fish", <<>>), Num}

\* cwds supplied: none, '/w', 'w', '/..', '/w..w', and a number
CwdInputs ==
    {Absent, Str("", <<"/", "w">>), Str("", <<"w">>), Str("", <<"/", ".", ".">>),
     Str("", <<"/", "w", ".", ".", "w">>), Num}

\* options of a create request
Options(cols, rows, shell, cwd) == [cols |-> cols, rows |-> rows, shell |-> shell, cwd |-> cwd]

\* the create request of the routing specifications
PlainOptions == Options(1, 1, Absent, Absent)

\* create requests of the PTY pool's specification: every size with no shell
\* and cwd, every shell and every cwd with no size
OptionInputs ==
    {Options(co, ro, Absent, Absent) : co \in WideDimInputs, ro \in WideDimInputs}
        \cup {Options(0, 0, sh, Absent) : sh \in ShellInputs}
        \cup {Options(0, 0, Absent, cw) : cw \in CwdInputs}

\* message.requestId of a frame; NoRequestId: the field is absent
NoRequestId == 0
ReqR == 5
RequestIdInputs == {NoRequestId, ReqR}

\* req.socket.remoteAddress: the text after an optional leading '::ffff:',
\* cut at its dots.  A part is a decimal number, or one of three texts that
\* are no number: '::1', another IPv6 text without a dot, and '::100', the
\* head of an IPv4-compatible IPv6 address.
SegLoopback6 == -2
SegOtherV6 == -3
SegCompat == -4

Addr(mapped, parts) == [mapped |-> mapped, parts |-> parts]

\* remoteAddress is undefined (the socket is already destroyed)
NoAddress == Addr(FALSE, <<>>)

Loopback4 == Addr(FALSE, <<127, 0, 0, 1>>)
Loopback6 == Addr(FALSE, <<SegLoopback6>>)
TailscalePeer == Addr(FALSE, <<100, 64, 0, 1>>)

\* the peers of the routing and handshake specifications: one local, one remote
PeerInputs == {Loopback4, TailscalePeer}

\* the peers of the origin filter: IPv4 addresses around the edges of
\* 100.64.0.0/10, plain and IPv4-mapped, IPv6 addresses, and no address
QuadInputs ==
    {<<a, b, c, d>> : a \in {100, 127, 192}, b \in {0, 63, 64, 127, 128},
                      c \in {0, 2, 255}, d \in {0, 1, 255}}
AddressInputs ==
    {Addr(m, q) : m \in BOOLEAN, q \in QuadInputs}
        \cup {Loopback6, Addr(FALSE, <<SegOtherV6>>), Addr(FALSE, <<SegCompat, 64, 0, 1>>),
              NoAddress}

\* service ids: one registered service, and an id that was never registered
SvcA == 1
SvcUnknown == 2
RegisteredIds == {SvcA}
ServiceIds == {SvcA, SvcUnknown}

\* the code of a child's 'exit' event; SignalExit: code is null, the child
\* was killed by a signal
SignalExit == -1
ExitCodes == {0, 1, SignalExit}

\* the IPC handlers that replace the RemoteServer
RegenerateHandlers == {"regenerate-auth-token", "regenerate-cert"}

VARIABLES
    ws,               \* connection id -> readyState of its WebSocket
    closeCode,        \* connection id -> code the server closed it with, 0 if none
    connLocal,        \* connection id -> isLocal captured at accept
    authTimer,        \* connection id -> state of its authTimeout
    clients,          \* RemoteServer.clients: connection id -> AuthenticatedClient
    sessionOwnership, \* module-level map sessionId -> deviceId
    sessions,         \* keys of PTYManager.sessions: the live PTYs
    managed,          \* PTYManager.sessions: session id -> its PTYSession
    dying,            \* killed PTYs whose exit event has not fired yet
    nextSession,      \* next session id to hand out
    restrictToTailscale, \* RemoteServer.restrictToTailscale, fixed at construction
    generation,       \* how many RemoteServers have been closed: the number of the
                      \* one in PersonalAgent.remoteServer
    wss,              \* the listener of that RemoteServer
    server,           \* connection id -> number of the RemoteServer that accepted it
    services,         \* ServiceManager.services: service id -> ManagedService
    teardown,         \* PersonalAgent.shutdown: the step it is at, the services
                      \* whose stopService promise its stopAll awaits, and those
                      \* of them whose promise waits for a handle that emits no 'exit'
    recording,        \* the messages sent are recorded, fixed at the start
    produced,         \* session id -> chunks its PTY has produced, when recording
    creator,          \* when tracked: session id -> the deviceId of the client whose
                      \* create frame made the session, none for the renderer's
    wire,             \* connection id -> the first messages sent on it, in the order
                      \* of the ws.send calls, when recording
    bufferedAmount,   \* the connections whose peer has stopped reading, fixed at the
                      \* start, and for each of them the forwarded events ws.send
                      \* has queued on its socket
    storedToken,      \* the token the ConfigStore holds: how many times it was
                      \* regenerated
    certificate,      \* the certificate the CertManager holds, likewise
    handlers,         \* IPC handler -> where its running invocation stands, how
                      \* many times it was invoked, the stored token when its
                      \* getAuthToken call was made
    instances,        \* every RemoteServer constructed, in order: its authToken,
                      \* its certificate, whether its server listens on the port
    remoteServer,     \* PersonalAgent.remoteServer: the index of the instance held
    last              \* what the last handler did: frame, reply, fan-out, pool call

vars == <<ws, closeCode, connLocal, authTimer, clients, sessionOwnership,
          sessions, managed, dying, nextSession, restrictToTailscale, generation, wss,
          server, services, teardown, recording, produced, creator, wire,
          bufferedAmount, storedToken, certificate, handlers, instances,
          remoteServer, last>>

\* the server's options, never written after construction
optionVars == <<restrictToTailscale>>

\* the state of the ServiceManager
serviceVars == <<services>>

\* the state of PersonalAgent: its shutdown, the token and certificate
\* regenerations and the RemoteServers they construct
appVars == <<teardown, storedToken, certificate, handlers, instances, remoteServer>>

\* the PTYSession records of the PTY pool
poolVars == <<managed>>

\* the RemoteServer in service and the RemoteServer of each connection
gatewayVars == <<generation, wss, server>>

(* ------------------------------ helpers -------------------------------- *)
MapPut(m, k, v) == [x \in (DOMAIN m) \cup {k} |-> IF x = k THEN v ELSE m[x]]

MapDel(m, k) == [x \in (DOMAIN m) \ {k} |-> m[x]]

EmptyMap == [x \in {} |-> 0]

\* record of one handler run: the frame or event handled, the reply sent to
\* the sender (and the sessions it lists), the event fanned out and to whom,
\* the PTYManager method called; dims: the frame carried non-zero cols and rows;
\* peer: the remote address of the connection accepted; requestId, replyId:
\* the requestId of the frame and of the reply; service, code: the service an
\* operation or event is about and the exit code of its child; resolved: the
\* replies sent by stopService / restartService promises settled in this run;
\* options: the options of a create request
Did(op, conn, sid, reply, sent, event, recipients, pool) ==
    [op |-> op, conn |-> conn, sid |-> sid, reply |-> reply, sessions |-> sent,
     event |-> event, recipients |-> recipients, pool |-> pool, dims |-> FALSE,
     peer |-> NoAddress, requestId |-> NoRequestId, replyId |-> NoRequestId,
     service |-> 0, code |-> 0, resolved |-> <<>>, options |-> PlainOptions]

\* replies built by sendError: they are given no requestId
ErrorReplies == {"error:format", "error:notauth", "error:denied", "error:notfound"}

\* the handler run of a frame that carried requestId rid (NoRequestId: none):
\* a reply built by the handler itself carries the frame's requestId
Framed(d, rid) ==
    [d EXCEPT !.requestId = rid,
              !.replyId = IF d.reply = "none" \/ d.reply \in ErrorReplies
                          THEN NoRequestId ELSE rid]

\* ids a frame can name: the ids handed out so far, live or not
SidInputs == 1..(nextSession - 1)

\* a 'message' event can still be emitted while the close handshake runs
CanReceive(c) == ws[c] \in {"open", "closing"}

\* RemoteServer.send: dropped unless the socket is OPEN
send(c, msg) == IF ws[c] = "open" THEN msg ELSE "none"

sendError(c, msg) == send(c, msg)

\* ws.close(code, reason) called by the server
WsAfterClose(c) == IF ws[c] = "open" THEN "closing" ELSE ws[c]

CodeAfterClose(c, code) == IF ws[c] = "open" THEN code ELSE closeCode[c]

\* crypto.timingSafeEqual on two buffers of the same length
timingSafeEqual(a, b) == \A i \in 1..Len(a) : a[i] = b[i]

\* the comparison without the test of the lengths: the bytes both have
TokenAcceptedNoLength(authToken, tok) ==
    \A i \in 1..(IF Len(tok) < Len(authToken) THEN Len(tok) ELSE Len(authToken)) :
        authToken[i] = tok[i]

\* handleAuth's comparison of this.authToken with payload.token
TokenAccepted(authToken, tok) == Len(authToken) = Len(tok) /\ timingSafeEqual(authToken, tok)

\* this.authToken of the RemoteServer that accepted connection c
authTokenOf(c) == TokenOf(server[c])

\* canAccessSession without its first line: a local client is treated like a
\* remote one
canAccessSessionNoLocal(client, sessionId) ==
    \/ sessionId \in client.ownedSessions
    \/ sessionId \in client.sessionSubscriptions

canAccessSession(client, sessionId) ==
    \/ client.isLocal
    \/ sessionId \in client.ownedSessions
    \/ sessionId \in client.sessionSubscriptions

getAllSessions == sessions

\* broadcastToSubscribers without the subscription test: every client
broadcastToEveryClient(sessionId) == {c \in DOMAIN clients : ws[c] = "open"}

\* clients whose sessionSubscriptions has the session and whose socket is OPEN
broadcastToSubscribers(sessionId) ==
    {c \in DOMAIN clients : sessionId \in clients[c].sessionSubscriptions /\ ws[c] = "open"}

\* broadcast over every open socket instead of the clients map
broadcastToEveryConnection == {c \in ConnIds : ws[c] = "open"}

broadcast == {c \in DOMAIN clients : ws[c] = "open"}

(* ------------------------- the record of ws.send ----------------------- *)
Message(type, sid, n) == [type |-> type, sid |-> sid, n |-> n]

\* a socket that sends the newest message first
wsSendFirst(log, msg) == IF Len(log) < MaxWire THEN <<msg>> \o log ELSE log

\* ws.send: the message leaves behind those sent before it
wsSend(log, msg) == IF Len(log) < MaxWire THEN Append(log, msg) ELSE log

\* the record of connection c after handler run d: the auth/success reply,
\* then the event fanned out; chunks: the chunks produced so far
wireAfter(log, d, c, chunks) ==
    LET replied == IF d.conn = c /\ d.reply = "auth/success"
                   THEN wsSend(log, Message("auth/success", 0, 0))
                   ELSE log
    IN  IF c \in d.recipients
        THEN wsSend(replied, Message(d.event, d.sid,
                                     IF d.event = "pty/data" THEN chunks[d.sid] ELSE 0))
        ELSE replied

\* the ws.send calls the fan-out of handler run d made on connection c
sends(d, c) == IF c \in d.recipients THEN 1 ELSE 0

\* every handler run is recorded: the chunk of a 'data' event is numbered,
\* the device of a create frame is kept with the session it made, the
\* messages sent are appended, the record of a connection ends with it
Recorded ==
    /\ recording' = recording
    /\ produced' = IF recording /\ last'.op = "pty:data"
                   THEN [produced EXCEPT ![last'.sid] = @ + 1]
                   ELSE produced
    /\ creator' = IF creator.tracked /\ last'.op = "pty/create" /\ last'.pool = "create"
                   THEN [creator EXCEPT !.by[last'.sid] = {clients[last'.conn].deviceId}]
                   ELSE creator
    /\ wire' = IF ~recording
               THEN wire
               ELSE [c \in ConnIds |->
                       IF last'.conn = c /\ last'.op \in {"ws:close", "socket:closed"}
                       THEN <<>>
                       ELSE wireAfter(wire[c], last', c, produced')]
    /\ bufferedAmount' =
          IF bufferedAmount.stalled = {}
          THEN bufferedAmount
          ELSE [bufferedAmount EXCEPT !.n =
                  [c \in ConnIds |->
                      IF c \notin bufferedAmount.stalled
                      THEN 0
                      ELSE IF last'.conn = c /\ last'.op \in {"ws:close", "socket:closed"}
                      THEN 0
                      ELSE bufferedAmount.n[c] + sends(last', c)]]

(* ------------------------------- Init ---------------------------------- *)
(* ---------------------- ServiceManager.registerService ------------------ *)
\* the ManagedService of a service just registered: stopped, no child; timers:
\* auto-restart timers pending; waiters: stopService promises waiting for the
\* child's exit
registerService(restartOnFailure) ==
    [status |-> "stopped", process |-> "null", restartOnFailure |-> restartOnFailure,
     lastError |-> "undefined", uptime |-> "undefined", timers |-> 0, waiters |-> <<>>,
     orphans |-> 0, stale |-> <<>>]

\* what ServiceManager.getStatus leaves in the service: status.uptime is
\* written when startTime is set, and startTime is set from the spawn to the
\* exit of the child
statusQueried(svc) == IF svc.process # "null" THEN [svc EXCEPT !.uptime = "number"] ELSE svc

\* getAllStatuses: getStatus on every service
getAllStatuses == [id \in DOMAIN services |-> statusQueried(services[id])]

Init ==
    /\ ws = [c \in ConnIds |-> "none"]
    /\ closeCode = [c \in ConnIds |-> 0]
    /\ connLocal = [c \in ConnIds |-> FALSE]
    /\ authTimer = [c \in ConnIds |-> "none"]
    /\ clients = EmptyMap
    /\ sessionOwnership = EmptyMap
    /\ sessions = {}
    /\ managed = EmptyMap
    /\ generation = 0
    /\ wss = "listening"
    /\ server = [c \in ConnIds |-> 0]
    /\ teardown = [step |-> "none", awaiting |-> {}, lost |-> {}]
    /\ recording = FALSE
    /\ produced = [s \in SessionIds |-> 0]
    /\ creator = [tracked |-> FALSE, by |-> [s \in SessionIds |-> {}]]
    /\ wire = [c \in ConnIds |-> <<>>]
    /\ bufferedAmount = [stalled |-> {}, n |-> [c \in ConnIds |-> 0]]
    /\ storedToken = 0
    /\ certificate = 0
    /\ handlers = [h \in RegenerateHandlers |-> [pc |-> "idle", calls |-> 0, read |-> 0]]
    /\ instances = <<[authToken |-> 0, cert |-> 0, listening |-> TRUE]>>
    /\ remoteServer = 1
    /\ dying = {}
    /\ nextSession = 1
    /\ restrictToTailscale = TRUE
    /\ services = [id \in RegisteredIds |-> registerService(TRUE)]
    /\ last = Did("init", 0, 0, "none", {}, "none", {}, "none")

(* --------------------- RemoteServer.setupWebSocket --------------------- *)
\* connection ids free to be handed out: no socket, no ownership entry left
\* by a device that used the id as its deviceId, no promise that holds the
\* socket
FreeConns ==
    {c \in ConnIds :
        /\ ws[c] = "none"
        /\ \A s \in DOMAIN sessionOwnership : sessionOwnership[s] # c
        /\ \A id \in DOMAIN services :
              \A i \in 1..Len(services[id].waiters) : services[id].waiters[i].conn # c}

\* String.startsWith('::ffff:') ? substring(7) : the string
normalizeIP(ip) == IF ip.mapped THEN Addr(FALSE, ip.parts) ELSE ip

\* normalizedIP === '127.0.0.1' || normalizedIP === '::1'
isLocalhost(normalizedIP) == normalizedIP = Loopback4 \/ normalizedIP = Loopback6

\* Number(text): NaN for a text that is no number; every comparison with NaN
\* is false
NaN == -1
Number(seg) == IF seg >= 0 THEN seg ELSE NaN
StrictEq(a, b) == a # NaN /\ b # NaN /\ a = b
Geq(a, b) == a # NaN /\ b # NaN /\ a >= b
Leq(a, b) == a # NaN /\ b # NaN /\ a <= b

\* the range test with a lower edge of 63
isInTailscaleRangeFrom63(ip) ==
    LET normalized == normalizeIP(ip)
        parts == [i \in 1..Len(normalized.parts) |-> Number(normalized.parts[i])]
    IN  IF Len(parts) # 4
        THEN FALSE
        ELSE StrictEq(parts[1], 100) /\ Geq(parts[2], 63) /\ Leq(parts[2], 127)

isInTailscaleRange(ip) ==
    LET normalized == normalizeIP(ip)
        parts == [i \in 1..Len(normalized.parts) |-> Number(normalized.parts[i])]
    IN  IF Len(parts) # 4
        THEN FALSE
        ELSE StrictEq(parts[1], 100) /\ Geq(parts[2], 64) /\ Leq(parts[2], 127)

\* the origin check of the 'connection' handler: TRUE when it closes the socket
Refused(ip) ==
    /\ restrictToTailscale
    /\ ip # NoAddress
    /\ ~isLocalhost(normalizeIP(ip))
    /\ ~isInTailscaleRange(normalizeIP(ip))

\* the 'connection' handler with the origin check moved behind the handlers:
\* the timer is armed and frames are read on a connection it closes
AcceptThenFilter(c, ip) ==
    /\ wss = "listening"
    /\ c \in FreeConns
    /\ \A d \in FreeConns : c <= d
    /\ ws' = [ws EXCEPT ![c] = IF Refused(ip) THEN "closing" ELSE "open"]
    /\ closeCode' = [closeCode EXCEPT ![c] = IF Refused(ip) THEN CloseNotAllowed ELSE @]
    /\ connLocal' = [connLocal EXCEPT ![c] = isLocalhost(normalizeIP(ip))]
    /\ authTimer' = [authTimer EXCEPT ![c] = "armed"]
    /\ last' = [Did("accept", c, 0, "none", {}, "none", {}, "none") EXCEPT !.peer = ip]
    /\ UNCHANGED <<clients, sessionOwnership, sessions, dying, nextSession>>
    /\ server' = [server EXCEPT ![c] = generation]
    /\ UNCHANGED <<optionVars, serviceVars, poolVars, generation, wss>>
    /\ UNCHANGED appVars
    /\ Recorded

\* wss 'connection': a fresh clientId; a peer the origin check refuses is
\* closed with 4000 and gets no timer and no handler ("rejected"); any other
\* gets the auth timer armed and the handlers installed
Accept(c, ip) ==
    /\ wss = "listening"
    /\ c \in FreeConns
    /\ \A d \in FreeConns : c <= d
    /\ IF Refused(ip)
       THEN /\ ws' = [ws EXCEPT ![c] = "rejected"]
            /\ closeCode' = [closeCode EXCEPT ![c] = CloseNotAllowed]
            /\ UNCHANGED <<connLocal, authTimer>>
       ELSE /\ ws' = [ws EXCEPT ![c] = "open"]
            /\ connLocal' = [connLocal EXCEPT ![c] = isLocalhost(normalizeIP(ip))]
            /\ authTimer' = [authTimer EXCEPT ![c] = "armed"]
            /\ UNCHANGED closeCode
    /\ last' = [Did("accept", c, 0, "none", {}, "none", {}, "none") EXCEPT !.peer = ip]
    /\ UNCHANGED <<clients, sessionOwnership, sessions, dying, nextSession>>
    /\ server' = [server EXCEPT ![c] = generation]
    /\ UNCHANGED <<optionVars, serviceVars, poolVars, generation, wss>>
    /\ UNCHANGED appVars
    /\ Recorded

\* the socket of a refused peer is gone: the close handshake has completed
RejectedSocketClosed(c) ==
    /\ ws[c] = "rejected"
    /\ ws' = [ws EXCEPT ![c] = "none"]
    /\ closeCode' = [closeCode EXCEPT ![c] = 0]
    /\ last' = Did("socket:closed", c, 0, "none", {}, "none", {}, "none")
    /\ UNCHANGED <<connLocal, authTimer, clients, sessionOwnership, sessions, dying,
                   nextSession>>
    /\ server' = [server EXCEPT ![c] = 0]
    /\ UNCHANGED <<optionVars, serviceVars, poolVars, generation, wss>>
    /\ UNCHANGED appVars
    /\ Recorded

\* the authTimeout callback, 10 s after accept
AuthTimeout(c) ==
    /\ authTimer[c] = "armed"
    /\ authTimer' = [authTimer EXCEPT ![c] = "fired"]
    /\ IF c \notin DOMAIN clients
       THEN /\ ws' = [ws EXCEPT ![c] = WsAfterClose(c)]
            /\ closeCode' = [closeCode EXCEPT ![c] = CodeAfterClose(c, CloseAuthTimeout)]
       ELSE UNCHANGED <<ws, closeCode>>
    /\ last' = Did("authTimeout", c, 0, "none", {}, "none", {}, "none")
    /\ UNCHANGED <<connLocal, clients, sessionOwnership, sessions, dying,
                   nextSession>>
    /\ UNCHANGED <<optionVars, serviceVars, poolVars, gatewayVars>>
    /\ UNCHANGED appVars
    /\ Recorded

\* a close handler that also releases the sessions of the client's device
WsCloseReleasing(c) ==
    /\ ws[c] \in {"open", "closing"}
    /\ ws' = [ws EXCEPT ![c] = "none"]
    /\ clients' = IF c \in DOMAIN clients THEN MapDel(clients, c) ELSE clients
    /\ sessionOwnership' =
          IF c \in DOMAIN clients
          THEN [s \in {x \in DOMAIN sessionOwnership :
                         sessionOwnership[x] # clients[c].deviceId}
                  |-> sessionOwnership[s]]
          ELSE sessionOwnership
    /\ closeCode' = [closeCode EXCEPT ![c] = 0]
    /\ connLocal' = [connLocal EXCEPT ![c] = FALSE]
    /\ authTimer' = [authTimer EXCEPT ![c] = "none"]
    /\ last' = Did("ws:close", c, 0, "none", {}, "none", {}, "none")
    /\ UNCHANGED <<sessions, dying, nextSession>>
    /\ server' = [server EXCEPT ![c] = 0]
    /\ UNCHANGED <<optionVars, serviceVars, poolVars, generation, wss>>
    /\ UNCHANGED appVars
    /\ Recorded

\* ws 'close': the connection is gone (closed by the peer, or the close
\* handshake the server started has completed).  The handler deletes the
\* client; the closure's constants and its timer, whose callback can only
\* call close() on a closed socket, are dropped from the state with it.
WsClose(c) ==
    /\ ws[c] \in {"open", "closing"}
    /\ ws' = [ws EXCEPT ![c] = "none"]
    /\ clients' = IF c \in DOMAIN clients THEN MapDel(clients, c) ELSE clients
    /\ closeCode' = [closeCode EXCEPT ![c] = 0]
    /\ connLocal' = [connLocal EXCEPT ![c] = FALSE]
    /\ authTimer' = [authTimer EXCEPT ![c] = "none"]
    /\ last' = Did("ws:close", c, 0, "none", {}, "none", {}, "none")
    /\ UNCHANGED <<sessionOwnership, sessions, dying, nextSession>>
    /\ server' = [server EXCEPT ![c] = 0]
    /\ UNCHANGED <<optionVars, serviceVars, poolVars, generation, wss>>
    /\ UNCHANGED appVars
    /\ Recorded

(* ----------------------- RemoteServer.handleAuth ----------------------- *)
\* the scan of sessionOwnership without the test of the owner
RestoredUnfiltered(deviceId) == DOMAIN sessionOwnership

\* sessions restored to a device when it authenticates
RestoredSessions(deviceId) ==
    {s \in DOMAIN sessionOwnership : sessionOwnership[s] = deviceId}

\* every client is sent what a local client is sent
deviceSessionsUnfiltered(isLocal, deviceId) == getAllSessions

\* sessions listed in the auth/success reply
deviceSessions(isLocal, deviceId) ==
    IF isLocal
    THEN getAllSessions
    ELSE {s \in getAllSessions :
            s \in DOMAIN sessionOwnership /\ sessionOwnership[s] = deviceId}

NewClient(c, deviceId) ==
    [deviceId |-> deviceId,
     sessionSubscriptions |-> RestoredSessions(deviceId),
     ownedSessions |-> RestoredSessions(deviceId),
     serviceSubscriptions |-> {},
     isLocal |-> connLocal[c]]

\* payload.clientId || clientId
DeviceIdOf(c, cid) == IF cid # NoClientId THEN cid ELSE c
\* handleAuth without the clearTimeout
AuthFrameKeepsTimer(c, hasToken, tok, cid, rid) ==
    /\ CanReceive(c)
    /\ IF ~hasToken
       THEN /\ last' = Framed(Did("auth", c, 0, sendError(c, "error:format"), {}, "none", {},
                           "none"), rid)
            /\ UNCHANGED <<ws, closeCode, authTimer, clients>>
       ELSE IF ~TokenAccepted(authTokenOf(c), tok)
       THEN /\ ws' = [ws EXCEPT ![c] = WsAfterClose(c)]
            /\ closeCode' = [closeCode EXCEPT ![c] = CodeAfterClose(c, CloseInvalidToken)]
            /\ last' = Framed(Did("auth", c, 0, "none", {}, "none", {}, "none"), rid)
            /\ UNCHANGED <<authTimer, clients>>
       ELSE /\ authTimer' = authTimer
            /\ clients' = MapPut(clients, c, NewClient(c, DeviceIdOf(c, cid)))
            /\ last' = Framed(Did("auth", c, 0, send(c, "auth/success"),
                           IF ws[c] = "open"
                           THEN deviceSessions(connLocal[c], DeviceIdOf(c, cid))
                           ELSE {},
                           "none", {}, "none"), rid)
            /\ UNCHANGED <<ws, closeCode>>
    /\ UNCHANGED <<connLocal, sessionOwnership, sessions, dying, nextSession>>
    /\ services' = IF hasToken /\ TokenAccepted(authTokenOf(c), tok) THEN getAllStatuses
                                                                    ELSE services
    /\ UNCHANGED <<optionVars, poolVars, gatewayVars>>
    /\ UNCHANGED appVars
    /\ Recorded

\* handleAuth with clearTimeout moved in front of the token check
AuthFrameClearsFirst(c, hasToken, tok, cid, rid) ==
    /\ CanReceive(c)
    /\ authTimer' = [authTimer EXCEPT ![c] = IF @ = "armed" THEN "cleared" ELSE @]
    /\ IF ~hasToken
       THEN /\ last' = Framed(Did("auth", c, 0, sendError(c, "error:format"), {}, "none", {},
                           "none"), rid)
            /\ UNCHANGED <<ws, closeCode, clients>>
       ELSE IF ~TokenAccepted(authTokenOf(c), tok)
       THEN /\ ws' = [ws EXCEPT ![c] = WsAfterClose(c)]
            /\ closeCode' = [closeCode EXCEPT ![c] = CodeAfterClose(c, CloseInvalidToken)]
            /\ last' = Framed(Did("auth", c, 0, "none", {}, "none", {}, "none"), rid)
            /\ UNCHANGED clients
       ELSE /\ clients' = MapPut(clients, c, NewClient(c, DeviceIdOf(c, cid)))
            /\ last' = Framed(Did("auth", c, 0, send(c, "auth/success"),
                           IF ws[c] = "open"
                           THEN deviceSessions(connLocal[c], DeviceIdOf(c, cid))
                           ELSE {},
                           "none", {}, "none"), rid)
            /\ UNCHANGED <<ws, closeCode>>
    /\ UNCHANGED <<connLocal, sessionOwnership, sessions, dying, nextSession>>
    /\ services' = IF hasToken /\ TokenAccepted(authTokenOf(c), tok) THEN getAllStatuses
                                                                    ELSE services
    /\ UNCHANGED <<optionVars, poolVars, gatewayVars>>
    /\ UNCHANGED appVars
    /\ Recorded

\* an auth frame; hasToken = FALSE: the payload carries no token, Buffer.from
\* throws and the message handler's catch answers 'Invalid message format'
AuthFrame(c, hasToken, tok, cid, rid) ==
    /\ CanReceive(c)
    /\ IF ~hasToken
       THEN /\ last' = Framed(Did("auth", c, 0, sendError(c, "error:format"), {}, "none", {},
                           "none"), rid)
            /\ UNCHANGED <<ws, closeCode, authTimer, clients>>
       ELSE IF ~TokenAccepted(authTokenOf(c), tok)
       THEN /\ ws' = [ws EXCEPT ![c] = WsAfterClose(c)]
            /\ closeCode' = [closeCode EXCEPT ![c] = CodeAfterClose(c, CloseInvalidToken)]
            /\ last' = Framed(Did("auth", c, 0, "none", {}, "none", {}, "none"), rid)
            /\ UNCHANGED <<authTimer, clients>>
       ELSE /\ authTimer' = [authTimer EXCEPT
                               ![c] = IF @ = "armed" THEN "cleared" ELSE @]
            /\ clients' = MapPut(clients, c, NewClient(c, DeviceIdOf(c, cid)))
            /\ last' = Framed(Did("auth", c, 0, send(c, "auth/success"),
                           IF ws[c] = "open"
                           THEN deviceSessions(connLocal[c], DeviceIdOf(c, cid))
                           ELSE {},
                           "none", {}, "none"), rid)
            /\ UNCHANGED <<ws, closeCode>>
    /\ UNCHANGED <<connLocal, sessionOwnership, sessions, dying, nextSession>>
    /\ services' = IF hasToken /\ TokenAccepted(authTokenOf(c), tok) THEN getAllStatuses
                                                                    ELSE services
    /\ UNCHANGED <<optionVars, poolVars, gatewayVars>>
    /\ UNCHANGED appVars
    /\ Recorded

(* ---------------------- RemoteServer.handleMessage --------------------- *)
\* the unauthenticated frame answered by closing the connection
NotAuthenticatedCloses(c, rid) ==
    /\ CanReceive(c)
    /\ c \notin DOMAIN clients
    /\ ws' = [ws EXCEPT ![c] = WsAfterClose(c)]
    /\ closeCode' = [closeCode EXCEPT ![c] = CodeAfterClose(c, CloseInvalidToken)]
    /\ last' = Framed(Did("frame", c, 0, sendError(c, "error:notauth"), {}, "none", {}, "none"), rid)
    /\ UNCHANGED <<connLocal, authTimer, clients, sessionOwnership, sessions, dying,
                   nextSession>>
    /\ UNCHANGED <<optionVars, serviceVars, poolVars, gatewayVars>>
    /\ UNCHANGED appVars
    /\ Recorded

\* handleMessage without the test of the clients map: the frame of a
\* connection that is not authenticated closes the sessions
NotAuthenticatedRouted(c, rid) ==
    /\ CanReceive(c)
    /\ c \notin DOMAIN clients
    /\ last' = Framed(Did("frame", c, 0, sendError(c, "error:notauth"), {}, "none", {}, "none"), rid)
    /\ UNCHANGED <<ws, closeCode, connLocal, authTimer, clients, sessionOwnership,
                   nextSession>>
    /\ sessions' = {}
    /\ managed' = EmptyMap
    /\ dying' = dying \cup sessions
    /\ UNCHANGED <<optionVars, serviceVars, gatewayVars>>
    /\ UNCHANGED appVars
    /\ Recorded

\* a pty, service or system frame on a connection that is not in the clients map
NotAuthenticated(c, rid) ==
    /\ CanReceive(c)
    /\ c \notin DOMAIN clients
    /\ last' = Framed(Did("frame", c, 0, sendError(c, "error:notauth"), {}, "none", {}, "none"), rid)
    /\ UNCHANGED <<ws, closeCode, connLocal, authTimer, clients, sessionOwnership,
                   sessions, dying, nextSession>>
    /\ UNCHANGED <<optionVars, serviceVars, poolVars, gatewayVars>>
    /\ UNCHANGED appVars
    /\ Recorded

\* a pty frame reaches handlePTYMessage
Routed(c) == CanReceive(c) /\ c \in DOMAIN clients

(* --------------------------- PTYManager -------------------------------- *)
\* PTYManager.createSession: the sessions map after spawning a new PTY
createSession(id) == sessions \cup {id}

\* PTYManager.closeSession: the sessions map after kill + delete
closeSession(sessionId) == sessions \ {sessionId}

\* the killed PTY's exit event is still to come
killed(sessionId) == IF sessionId \in sessions THEN dying \cup {sessionId} ELSE dying

\* a value the '||' and '&&' of createSession take as supplied
Truthy(v) == v.kind = "number" \/ (v.kind = "string" /\ (v.text # "" \/ v.chars # <<>>))

ALLOWED_SHELLS ==
    {"/bin/zsh", "/bin/bash", "/bin/sh", "/usr/bin/zsh", "/usr/bin/bash",
     "/usr/local/bin/zsh", "/usr/local/bin/bash"}

\* process.env.SHELL || '/bin/zsh', and process.env.HOME || '/'
defaultShell == "/bin/zsh"
Home == <<"/">>

\* ALLOWED_SHELLS.includes(shell): strict equality with one of the entries
isValidShell(shell) == shell.kind = "string" /\ shell.text \in ALLOWED_SHELLS

\* String.includes('..'), String.startsWith('/')
includesDotDot(chars) == \E i \in 1..(Len(chars) - 1) : chars[i] = "." /\ chars[i + 1] = "."
startsWithSlash(chars) == Len(chars) >= 1 /\ chars[1] = "/"

\* PTYManager.isValidCwd; a value that is no string has no includes method
\* and the call throws
isValidCwd(cwd) ==
    IF cwd.kind # "string"
    THEN "TypeError"
    ELSE IF includesDotDot(cwd.chars)
    THEN "invalid"
    ELSE IF startsWithSlash(cwd.chars) THEN "valid" ELSE "invalid"

\* createSession throws before it spawns anything
createThrows(options) == Truthy(options.cwd) /\ isValidCwd(options.cwd) = "TypeError"

\* the PTYSession that createSession builds and spawns
PTYSession(options) ==
    [cols |-> IF options.cols # 0 THEN options.cols ELSE 80,
     rows |-> IF options.rows # 0 THEN options.rows ELSE 24,
     shell |-> IF Truthy(options.shell) /\ isValidShell(options.shell)
               THEN options.shell.text
               ELSE defaultShell,
     cwd |-> IF Truthy(options.cwd) /\ isValidCwd(options.cwd) = "valid"
             THEN options.cwd.chars
             ELSE Home]

\* node-pty's IPty.resize, called before the PTYSession is updated: whether it
\* throws for a size that is not positive is the library's choice
ResizeThrows(cols, rows) == IF cols > 0 /\ rows > 0 THEN {FALSE} ELSE {FALSE, TRUE}

\* PTYManager.resize: the PTYSession records after the call
resize(sessionId, cols, rows) ==
    IF sessionId \in DOMAIN managed
    THEN [managed EXCEPT ![sessionId].cols = cols, ![sessionId].rows = rows]
    ELSE managed

(* --------------------- RemoteServer.handlePTYMessage ------------------- *)
UpdClient(c, subs, owned) ==
    [clients EXCEPT ![c].sessionSubscriptions = subs, ![c].ownedSessions = owned]

PtyCreate(c, options, rid) ==
    /\ Routed(c)
    /\ nextSession <= MaxSessions
    /\ IF createThrows(options)
       THEN \* the message handler's catch answers 'Invalid message format'
            /\ last' = Framed([Did("pty/create", c, 0, sendError(c, "error:format"), {},
                                   "none", {}, "none") EXCEPT !.options = options], rid)
            /\ UNCHANGED <<sessions, managed, clients, sessionOwnership, nextSession>>
       ELSE /\ sessions' = createSession(nextSession)
            /\ managed' = MapPut(managed, nextSession, PTYSession(options))
            /\ clients' = UpdClient(c, clients[c].sessionSubscriptions \cup {nextSession},
                                    clients[c].ownedSessions \cup {nextSession})
            /\ sessionOwnership' = MapPut(sessionOwnership, nextSession, clients[c].deviceId)
            /\ nextSession' = nextSession + 1
            /\ last' = Framed([Did("pty/create", c, nextSession, send(c, "pty/created"),
                                   {}, "none", {}, "create") EXCEPT !.options = options],
                              rid)
    /\ UNCHANGED <<ws, closeCode, connLocal, authTimer, dying>>
    /\ UNCHANGED <<optionVars, serviceVars, gatewayVars>>
    /\ UNCHANGED appVars
    /\ Recorded

PtyWrite(c, s, rid) ==
    /\ Routed(c)
    /\ IF ~canAccessSession(clients[c], s)
       THEN last' = Framed(Did("pty/write", c, s, sendError(c, "error:denied"), {}, "none", {},
                        "none"), rid)
       ELSE last' = Framed(Did("pty/write", c, s, "none", {}, "none", {}, "write"), rid)
    /\ UNCHANGED <<ws, closeCode, connLocal, authTimer, clients, sessionOwnership,
                   sessions, dying, nextSession>>
    /\ UNCHANGED <<optionVars, serviceVars, poolVars, gatewayVars>>
    /\ UNCHANGED appVars
    /\ Recorded

PtyResize(c, s, cols, rows, rid) ==
    /\ Routed(c)
    /\ IF cols # 0 /\ rows # 0
       THEN IF ~canAccessSession(clients[c], s)
            THEN /\ last' = Framed([Did("pty/resize", c, s, sendError(c, "error:denied"), {},
                                        "none", {}, "none") EXCEPT !.dims = TRUE], rid)
                 /\ UNCHANGED managed
            ELSE \E thrown \in ResizeThrows(cols, rows) :
                    IF thrown /\ s \in sessions
                    THEN /\ last' = Framed([Did("pty/resize", c, s,
                                                sendError(c, "error:format"), {}, "none", {},
                                                "resize") EXCEPT !.dims = TRUE], rid)
                         /\ UNCHANGED managed
                    ELSE /\ last' = Framed([Did("pty/resize", c, s, "none", {}, "none", {},
                                                "resize") EXCEPT !.dims = TRUE], rid)
                         /\ managed' = resize(s, cols, rows)
       ELSE /\ last' = Framed(Did("pty/resize", c, s, "none", {}, "none", {}, "none"), rid)
            /\ UNCHANGED managed
    /\ UNCHANGED <<ws, closeCode, connLocal, authTimer, clients, sessionOwnership,
                   sessions, dying, nextSession>>
    /\ UNCHANGED <<optionVars, serviceVars, gatewayVars>>
    /\ UNCHANGED appVars
    /\ Recorded

PtyClose(c, s, rid) ==
    /\ Routed(c)
    /\ IF ~canAccessSession(clients[c], s)
       THEN /\ last' = Framed(Did("pty/close", c, s, sendError(c, "error:denied"), {}, "none", {},
                           "none"), rid)
            /\ UNCHANGED <<clients, sessionOwnership, sessions, managed, dying>>
       ELSE /\ sessions' = closeSession(s)
            /\ managed' = MapDel(managed, s)
            /\ dying' = killed(s)
            /\ clients' = UpdClient(c, clients[c].sessionSubscriptions \ {s},
                                    clients[c].ownedSessions \ {s})
            /\ sessionOwnership' = MapDel(sessionOwnership, s)
            /\ last' = Framed(Did("pty/close", c, s, "none", {}, "none", {}, "close"), rid)
    /\ UNCHANGED <<ws, closeCode, connLocal, authTimer, nextSession>>
    /\ UNCHANGED <<optionVars, serviceVars, gatewayVars>>
    /\ UNCHANGED appVars
    /\ Recorded

\* the subscribe case guarded like write, resize and close
maySubscribeIfAccess(client, sessionId) == canAccessSession(client, sessionId)

\* the test of a subscribe frame that asks for an owner, whoever it is
maySubscribeAnyOwner(client, sessionId) ==
    \/ client.isLocal
    \/ sessionId \in DOMAIN sessionOwnership

\* the test of the subscribe case: local, or the device owns the session
maySubscribe(client, sessionId) ==
    \/ client.isLocal
    \/ sessionId \in DOMAIN sessionOwnership
         /\ sessionOwnership[sessionId] = client.deviceId

PtySubscribe(c, s, rid) ==
    /\ Routed(c)
    /\ IF ~maySubscribe(clients[c], s)
       THEN /\ last' = Framed(Did("pty/subscribe", c, s, sendError(c, "error:denied"), {}, "none",
                           {}, "none"), rid)
            /\ UNCHANGED clients
       ELSE /\ clients' = UpdClient(c, clients[c].sessionSubscriptions \cup {s},
                                    IF s \in DOMAIN sessionOwnership
                                         /\ sessionOwnership[s] = clients[c].deviceId
                                    THEN clients[c].ownedSessions \cup {s}
                                    ELSE clients[c].ownedSessions)
            /\ last' = Framed(Did("pty/subscribe", c, s, "none", {}, "none", {}, "none"), rid)
    /\ UNCHANGED <<ws, closeCode, connLocal, authTimer, sessionOwnership, sessions,
                   dying, nextSession>>
    /\ UNCHANGED <<optionVars, serviceVars, poolVars, gatewayVars>>
    /\ UNCHANGED appVars
    /\ Recorded

PtyUnsubscribe(c, s, rid) ==
    /\ Routed(c)
    /\ clients' = UpdClient(c, clients[c].sessionSubscriptions \ {s},
                            clients[c].ownedSessions)
    /\ last' = Framed(Did("pty/unsubscribe", c, s, "none", {}, "none", {}, "none"), rid)
    /\ UNCHANGED <<ws, closeCode, connLocal, authTimer, sessionOwnership, sessions,
                   dying, nextSession>>
    /\ UNCHANGED <<optionVars, serviceVars, poolVars, gatewayVars>>
    /\ UNCHANGED appVars
    /\ Recorded

(* ------------------ RemoteServer.setupPTYForwarding -------------------- *)
\* a PTY yields output: PTYManager emits 'data', forwarded as pty/data
PtyData(s) ==
    /\ s \in sessions \cup dying
    /\ recording => produced[s] < MaxChunks
    /\ \A c \in bufferedAmount.stalled : bufferedAmount.n[c] < MaxBuffered
    /\ last' = Did("pty:data", 0, s, "none", {}, "pty/data", broadcastToSubscribers(s),
                   "none")
    /\ UNCHANGED <<ws, closeCode, connLocal, authTimer, clients, sessionOwnership,
                   sessions, dying, nextSession>>
    /\ UNCHANGED <<optionVars, serviceVars, poolVars, gatewayVars>>
    /\ UNCHANGED appVars
    /\ Recorded

\* a PTY's child terminates (by itself, or after kill): onExit emits 'exit',
\* whose listener releases ownership and forwards pty/exit, then the entry
\* is deleted from the sessions map
PtyExit(s) ==
    /\ s \in sessions \cup dying
    /\ sessionOwnership' = MapDel(sessionOwnership, s)
    /\ sessions' = sessions \ {s}
    /\ managed' = MapDel(managed, s)
    /\ dying' = dying \ {s}
    /\ last' = Did("pty:exit", 0, s, "none", {}, "pty/exit", broadcastToSubscribers(s),
                   "none")
    /\ UNCHANGED <<ws, closeCode, connLocal, authTimer, clients, nextSession>>
    /\ UNCHANGED <<optionVars, serviceVars, gatewayVars>>
    /\ UNCHANGED appVars
    /\ Recorded

(* ---------------------- PersonalAgent.setupIPC ------------------------- *)
\* ipcMain 'create-session': PTYManager.createSession called by the renderer
IpcCreateSession(options) ==
    /\ nextSession <= MaxSessions
    /\ IF createThrows(options)
       THEN \* the renderer's invoke is rejected
            /\ last' = [Did("ipc:create-session", 0, 0, "none", {}, "none", {}, "none")
                           EXCEPT !.options = options]
            /\ UNCHANGED <<sessions, managed, nextSession>>
       ELSE /\ sessions' = createSession(nextSession)
            /\ managed' = MapPut(managed, nextSession, PTYSession(options))
            /\ nextSession' = nextSession + 1
            /\ last' = [Did("ipc:create-session", 0, nextSession, "none", {}, "none", {},
                            "create") EXCEPT !.options = options]
    /\ UNCHANGED <<ws, closeCode, connLocal, authTimer, clients, sessionOwnership,
                   dying>>
    /\ UNCHANGED <<optionVars, serviceVars, gatewayVars>>
    /\ UNCHANGED appVars
    /\ Recorded

\* ipcMain 'close-session': PTYManager.closeSession called by the renderer
IpcCloseSession(s) ==
    /\ s \in sessions
    /\ sessions' = closeSession(s)
    /\ managed' = MapDel(managed, s)
    /\ dying' = killed(s)
    /\ last' = Did("ipc:close-session", 0, s, "none", {}, "none", {}, "close")
    /\ UNCHANGED <<ws, closeCode, connLocal, authTimer, clients, sessionOwnership, nextSession>>
    /\ UNCHANGED <<optionVars, serviceVars, gatewayVars>>
    /\ UNCHANGED appVars
    /\ Recorded

(* ---------------- RemoteServer.setupServiceForwarding ------------------ *)
\* ServiceManager emits 'service:status': forwarded to every client
ServiceStatusEvent ==
    /\ last' = Did("service:status", 0, 0, "none", {}, "service/status", broadcast, "none")
    /\ UNCHANGED <<ws, closeCode, connLocal, authTimer, clients, sessionOwnership,
                   sessions, dying, nextSession>>
    /\ UNCHANGED <<optionVars, serviceVars, poolVars, gatewayVars>>
    /\ UNCHANGED appVars
    /\ Recorded

(* ----------------------------- ServiceManager -------------------------- *)
\* the handler run is about service id
About(d, id) == [d EXCEPT !.service = id]

\* ServiceManager.startService on a registered service: nothing when it is
\* running, else a child is spawned
\* a live child whose handle is overwritten by the spawn is an orphan, and the
\* stopService promises that wait for its exit stay with it
startService(svc) ==
    IF svc.status = "running"
    THEN svc
    ELSE IF svc.process = "child"
    THEN [svc EXCEPT !.status = "running", !.orphans = @ + 1,
                     !.stale = @ \o svc.waiters, !.waiters = <<>>]
    ELSE [svc EXCEPT !.status = "running", !.process = "child"]

\* the children of a service that are alive
Alive(svc) == svc.orphans + (IF svc.process = "child" THEN 1 ELSE 0)

\* startService emits service:status (starting, then running)
startEmits(svc) == svc.status # "running"

\* the event forwarded by setupServiceForwarding, and to whom
StatusEvent(emitted) == IF emitted THEN "service/status" ELSE "none"
StatusRecipients(emitted) == IF emitted THEN broadcast ELSE {}

\* a stopService promise waiting for the exit of the child: the connection
\* and requestId of the frame, and what follows (kind "stop": the reply
\* 'stopped'; kind "restart": startService, then the reply 'restarted')
Waiter(c, rid, kind) == [conn |-> c, rid |-> rid, kind |-> kind]

\* a service frame 'start'
ServiceStart(c, id, rid) ==
    /\ Routed(c)
    /\ IF id \notin DOMAIN services
       THEN \* startService throws: the promise is rejected and nothing is sent
            /\ last' = Framed(About(Did("service/start", c, 0, "none", {}, "none", {},
                                        "none"), id), rid)
            /\ UNCHANGED services
       ELSE /\ services' = [services EXCEPT ![id] = statusQueried(startService(@))]
            /\ last' = Framed(About(Did("service/start", c, 0, send(c, "service/started"),
                                        {}, StatusEvent(startEmits(services[id])),
                                        StatusRecipients(startEmits(services[id])),
                                        "none"), id), rid)
    /\ UNCHANGED <<ws, closeCode, connLocal, authTimer, clients, sessionOwnership,
                   sessions, dying, nextSession, optionVars, poolVars,
                   gatewayVars>>
    /\ UNCHANGED appVars
    /\ Recorded

\* a service frame 'stop'
ServiceStop(c, id, rid) ==
    /\ Routed(c)
    /\ IF id \notin DOMAIN services \/ services[id].process = "null"
       THEN \* stopService returns at once and the reply is sent
            /\ last' = Framed(About(Did("service/stop", c, 0, send(c, "service/stopped"),
                                        {}, "none", {}, "none"), id), rid)
            /\ UNCHANGED services
       ELSE IF services[id].process = "failed"
       THEN \* the child never ran and emits no 'exit': the promise never settles
            /\ last' = Framed(About(Did("service/stop", c, 0, "none", {}, "none", {},
                                        "none"), id), rid)
            /\ UNCHANGED services
       ELSE /\ Len(services[id].waiters) < MaxStopWaiters
            /\ services' = [services EXCEPT
                              ![id].waiters = Append(@, Waiter(c, rid, "stop"))]
            /\ last' = Framed(About(Did("service/stop", c, 0, "none", {}, "none", {},
                                        "none"), id), rid)
    /\ UNCHANGED <<ws, closeCode, connLocal, authTimer, clients, sessionOwnership,
                   sessions, dying, nextSession, optionVars, poolVars,
                   gatewayVars>>
    /\ UNCHANGED appVars
    /\ Recorded

\* a service frame 'restart': stopService, then startService
ServiceRestart(c, id, rid) ==
    /\ Routed(c)
    /\ IF id \notin DOMAIN services
       THEN \* stopService returns, startService throws: nothing is sent
            /\ last' = Framed(About(Did("service/restart", c, 0, "none", {}, "none", {},
                                        "none"), id), rid)
            /\ UNCHANGED services
       ELSE IF services[id].process = "null"
       THEN /\ services' = [services EXCEPT ![id] = statusQueried(startService(@))]
            /\ last' = Framed(About(Did("service/restart", c, 0,
                                        send(c, "service/restarted"), {},
                                        StatusEvent(startEmits(services[id])),
                                        StatusRecipients(startEmits(services[id])),
                                        "none"), id), rid)
       ELSE IF services[id].process = "failed"
       THEN /\ last' = Framed(About(Did("service/restart", c, 0, "none", {}, "none", {},
                                        "none"), id), rid)
            /\ UNCHANGED services
       ELSE /\ Len(services[id].waiters) < MaxStopWaiters
            /\ services' = [services EXCEPT
                              ![id].waiters = Append(@, Waiter(c, rid, "restart"))]
            /\ last' = Framed(About(Did("service/restart", c, 0, "none", {}, "none", {},
                                        "none"), id), rid)
    /\ UNCHANGED <<ws, closeCode, connLocal, authTimer, clients, sessionOwnership,
                   sessions, dying, nextSession, optionVars, poolVars,
                   gatewayVars>>
    /\ UNCHANGED appVars
    /\ Recorded

\* the replies of the promises settled by an exit, in the order they were made
Resolved(waiters) ==
    [i \in 1..Len(waiters) |->
        [conn |-> waiters[i].conn,
         reply |-> send(waiters[i].conn,
                        IF waiters[i].kind = "stop" THEN "service/stopped"
                                                    ELSE "service/restarted"),
         replyId |-> IF ws[waiters[i].conn] = "open" THEN waiters[i].rid
                                                      ELSE NoRequestId]]

\* the child of a service exits: the 'exit' listener of startService marks
\* the service stopped and, if restartOnFailure and code !== 0, sets the 5 s
\* restart timer; then the stopService promises settle, a restartService
\* among them starts the service again, and the one of stopAll is awaited no
\* longer
ChildExit(id, code) ==
    /\ id \in DOMAIN services
    /\ services[id].process = "child"
    /\ LET svc == services[id]
           schedule == svc.restartOnFailure /\ code # 0
           exited == [svc EXCEPT !.status = "stopped", !.process = "null",
                                 !.timers = IF schedule THEN @ + 1 ELSE @,
                                 !.waiters = <<>>]
           restarts == \E i \in 1..Len(svc.waiters) : svc.waiters[i].kind = "restart"
       IN  /\ schedule => svc.timers < MaxRestartTimers
           /\ services' = [services EXCEPT
                             ![id] = IF restarts THEN statusQueried(startService(exited))
                                                 ELSE exited]
           /\ last' = [About(Did("child:exit", 0, 0, "none", {}, "service/status",
                                 broadcast, "none"), id)
                          EXCEPT !.code = code, !.resolved = Resolved(svc.waiters)]
    /\ UNCHANGED <<ws, closeCode, connLocal, authTimer, clients, sessionOwnership,
                   sessions, dying, nextSession, optionVars, poolVars,
                   gatewayVars>>
    /\ teardown' = [teardown EXCEPT !.awaiting = @ \ {id}]
    /\ UNCHANGED <<storedToken, certificate, handlers, instances, remoteServer>>
    /\ Recorded

\* the 'error' listener without lastError
ChildErrorUnrecorded(id) ==
    /\ id \in DOMAIN services
    /\ services[id].process = "child"
    /\ services' = [services EXCEPT ![id].status = "error", ![id].process = "failed",
                                    ![id].waiters = <<>>]
    /\ last' = About(Did("child:error", 0, 0, "none", {}, "service/status", broadcast,
                         "none"), id)
    /\ UNCHANGED <<ws, closeCode, connLocal, authTimer, clients, sessionOwnership,
                   sessions, dying, nextSession, optionVars, poolVars,
                   gatewayVars>>
    /\ UNCHANGED appVars
    /\ Recorded

\* the child emits 'error' (the spawn failed): status error; the handle stays
\* in service.process and will never emit 'exit', so the promises waiting for
\* it never settle
ChildError(id) ==
    /\ id \in DOMAIN services
    /\ services[id].process = "child"
    /\ services' = [services EXCEPT ![id].status = "error", ![id].process = "failed",
                                    ![id].lastError = "message", ![id].waiters = <<>>]
    /\ last' = About(Did("child:error", 0, 0, "none", {}, "service/status", broadcast,
                         "none"), id)
    /\ UNCHANGED <<ws, closeCode, connLocal, authTimer, clients, sessionOwnership,
                   sessions, dying, nextSession, optionVars, poolVars,
                   gatewayVars>>
    /\ UNCHANGED appVars
    /\ Recorded

\* the 10 s timer of stopService expires while the child is alive, and
\* proc.kill('SIGKILL') fails (EPERM: the child runs as another user): the
\* handle emits 'error', the 'error' listener sets status error, and the child
\* is alive and still in service.process
ForceKillFails(id) ==
    /\ id \in DOMAIN services
    /\ services[id].process = "child"
    /\ services[id].waiters # <<>>
    /\ services[id].orphans < MaxOrphans
    /\ services' = [services EXCEPT ![id].status = "error", ![id].lastError = "message"]
    /\ last' = About(Did("child:error", 0, 0, "none", {}, "service/status", broadcast,
                         "none"), id)
    /\ UNCHANGED <<ws, closeCode, connLocal, authTimer, clients, sessionOwnership,
                   sessions, dying, nextSession, optionVars, poolVars,
                   gatewayVars>>
    /\ UNCHANGED appVars
    /\ Recorded

\* an orphan exits: its 'exit' listener writes the service it closes over
\* (status stopped, process null, the restart timer), so the child now in
\* service.process becomes an orphan; then the stopService promises that
\* waited for the orphan settle
OrphanExit(id, code) ==
    /\ id \in DOMAIN services
    /\ services[id].orphans > 0
    /\ LET svc == services[id]
           schedule == svc.restartOnFailure /\ code # 0
           exited == [svc EXCEPT !.status = "stopped", !.process = "null",
                                 !.timers = IF schedule THEN @ + 1 ELSE @,
                                 !.orphans = IF svc.process = "child" THEN @ ELSE @ - 1,
                                 !.stale = svc.waiters, !.waiters = <<>>]
           restarts == \E i \in 1..Len(svc.stale) : svc.stale[i].kind = "restart"
       IN  /\ schedule => svc.timers < MaxRestartTimers
           /\ services' = [services EXCEPT
                             ![id] = IF restarts THEN statusQueried(startService(exited))
                                                 ELSE exited]
           /\ last' = [About(Did("child:exit", 0, 0, "none", {}, "service/status",
                                 broadcast, "none"), id)
                          EXCEPT !.code = code, !.resolved = Resolved(svc.stale)]
    /\ UNCHANGED <<ws, closeCode, connLocal, authTimer, clients, sessionOwnership,
                   sessions, dying, nextSession, optionVars, poolVars,
                   gatewayVars>>
    /\ UNCHANGED appVars
    /\ Recorded

\* a restart timer set by the 'exit' listener expires: startService(id)
RestartTimer(id) ==
    /\ id \in DOMAIN services
    /\ services[id].timers > 0
    /\ services' = [services EXCEPT ![id] = startService([@ EXCEPT !.timers = @ - 1])]
    /\ last' = About(Did("restartTimer", 0, 0, "none", {},
                         StatusEvent(startEmits(services[id])),
                         StatusRecipients(startEmits(services[id])), "none"), id)
    /\ UNCHANGED <<ws, closeCode, connLocal, authTimer, clients, sessionOwnership,
                   sessions, dying, nextSession, optionVars, poolVars,
                   gatewayVars>>
    /\ UNCHANGED appVars
    /\ Recorded

(* ------------------- service subscriptions and output ------------------ *)
\* ServiceManager.getStatus(id) is defined
getStatus(id) == id \in DOMAIN services

\* the output of a service sent to every client
broadcastOutputToAll(serviceId) == {c \in DOMAIN clients : ws[c] = "open"}

\* clients whose serviceSubscriptions has the service and whose socket is OPEN
broadcastToServiceSubscribers(serviceId) ==
    {c \in DOMAIN clients : serviceId \in clients[c].serviceSubscriptions /\ ws[c] = "open"}

\* a service frame 'subscribe'
ServiceSubscribe(c, id, rid) ==
    /\ Routed(c)
    /\ IF ~getStatus(id)
       THEN /\ last' = Framed(About(Did("service/subscribe", c, 0,
                                        sendError(c, "error:notfound"), {}, "none", {},
                                        "none"), id), rid)
            /\ UNCHANGED <<clients, services>>
       ELSE /\ clients' = [clients EXCEPT ![c].serviceSubscriptions = @ \cup {id}]
            /\ services' = [services EXCEPT ![id] = statusQueried(@)]
            /\ last' = Framed(About(Did("service/subscribe", c, 0, "none", {}, "none", {},
                                        "none"), id), rid)
    /\ UNCHANGED <<ws, closeCode, connLocal, authTimer, sessionOwnership, sessions, dying,
                   nextSession>>
    /\ UNCHANGED <<optionVars, poolVars, gatewayVars>>
    /\ UNCHANGED appVars
    /\ Recorded

\* a service frame 'list': getAllStatuses, sent to the client
ServiceList(c, rid) ==
    /\ Routed(c)
    /\ services' = getAllStatuses
    /\ last' = Framed(Did("service/list", c, 0, send(c, "service/list"), {}, "none", {},
                          "none"), rid)
    /\ UNCHANGED <<ws, closeCode, connLocal, authTimer, clients, sessionOwnership, sessions,
                   dying, nextSession>>
    /\ UNCHANGED <<optionVars, poolVars, gatewayVars>>
    /\ UNCHANGED appVars
    /\ Recorded

\* a service frame 'unsubscribe'
ServiceUnsubscribe(c, id, rid) ==
    /\ Routed(c)
    /\ clients' = [clients EXCEPT ![c].serviceSubscriptions = @ \ {id}]
    /\ last' = Framed(About(Did("service/unsubscribe", c, 0, "none", {}, "none", {}, "none"),
                            id), rid)
    /\ UNCHANGED <<ws, closeCode, connLocal, authTimer, sessionOwnership, sessions, dying,
                   nextSession>>
    /\ UNCHANGED <<optionVars, serviceVars, poolVars, gatewayVars>>
    /\ UNCHANGED appVars
    /\ Recorded

\* the child of a service writes to stdout or stderr: ServiceManager emits
\* 'service:output', forwarded as service/output
ServiceOutput(id) ==
    /\ id \in DOMAIN services
    /\ services[id].process = "child"
    /\ last' = About(Did("service:output", 0, 0, "none", {}, "service/output",
                         broadcastToServiceSubscribers(id), "none"), id)
    /\ UNCHANGED <<ws, closeCode, connLocal, authTimer, clients, sessionOwnership,
                   sessions, dying, nextSession>>
    /\ UNCHANGED <<optionVars, serviceVars, poolVars, gatewayVars>>
    /\ UNCHANGED appVars
    /\ Recorded

(* ------------------------- RemoteServer.close -------------------------- *)
\* connections of a RemoteServer that has been closed
Retired(c) == ws[c] # "none" /\ server[c] < generation

\* close(): ws.close() on the socket of every client in the clients map,
\* then wss.close() and server.close(), which stop the listener and leave the
\* accepted sockets alone
close ==
    [c \in ConnIds |->
        IF c \in DOMAIN clients /\ server[c] = generation THEN WsAfterClose(c) ELSE ws[c]]

\* ipcMain 'regenerate-auth-token', up to its second await: the new token is
\* stored and the RemoteServer in service is closed
RegenerateAuthToken ==
    /\ wss = "listening"
    /\ generation < MaxRegenerations
    /\ ws' = close
    /\ wss' = "closed"
    /\ generation' = generation + 1
    /\ last' = Did("regenerate-auth-token", 0, 0, "none", {}, "none", {}, "none")
    /\ UNCHANGED <<closeCode, connLocal, authTimer, clients, sessionOwnership, sessions,
                   dying, nextSession, server>>
    /\ UNCHANGED <<optionVars, serviceVars, poolVars>>
    /\ UNCHANGED appVars
    /\ Recorded

\* startRemoteServer: a new RemoteServer listens, with the token now stored
startRemoteServer ==
    /\ wss = "closed"
    /\ wss' = "listening"
    /\ last' = Did("startRemoteServer", 0, 0, "none", {}, "none", {}, "none")
    /\ UNCHANGED <<ws, closeCode, connLocal, authTimer, clients, sessionOwnership,
                   sessions, dying, nextSession, generation, server>>
    /\ UNCHANGED <<optionVars, serviceVars, poolVars>>
    /\ UNCHANGED appVars
    /\ Recorded

(* ------------- ipcMain 'regenerate-auth-token', 'regenerate-cert' ------- *)
\* The two handlers are async functions: an invocation runs until an await
\* and the other handler may run before it resumes. No connection is open.

\* a handler is invoked and runs up to its first await:
\* configStore.regenerateAuthToken(), or tailscaleService.getStatus() and
\* certManager.regenerate()
Regenerate(h) ==
    /\ handlers[h].pc = "idle"
    /\ handlers[h].calls < MaxInvocations
    /\ handlers' = [handlers EXCEPT ![h].pc = "regenerating", ![h].calls = @ + 1]
    /\ last' = Did(h, 0, 0, "none", {}, "none", {}, "none")
    /\ UNCHANGED <<ws, closeCode, connLocal, authTimer, clients, sessionOwnership,
                   sessions, dying, nextSession>>
    /\ UNCHANGED <<optionVars, serviceVars, poolVars, gatewayVars>>
    /\ UNCHANGED <<teardown, storedToken, certificate, instances, remoteServer>>
    /\ Recorded

\* the regeneration has settled, the new token or certificate is stored; the
\* handler resumes: this.remoteServer?.close(), then startRemoteServer() up
\* to its await of configStore.getAuthToken()
Regenerated(h) ==
    /\ handlers[h].pc = "regenerating"
    /\ storedToken' = IF h = "regenerate-auth-token" THEN storedToken + 1 ELSE storedToken
    /\ certificate' = IF h = "regenerate-cert" THEN certificate + 1 ELSE certificate
    /\ instances' = [instances EXCEPT ![remoteServer].listening = FALSE]
    /\ handlers' = [handlers EXCEPT ![h].pc = "getAuthToken", ![h].read = storedToken']
    /\ last' = Did("close", 0, 0, "none", {}, "none", {}, "none")
    /\ UNCHANGED <<ws, closeCode, connLocal, authTimer, clients, sessionOwnership,
                   sessions, dying, nextSession>>
    /\ UNCHANGED <<optionVars, serviceVars, poolVars, gatewayVars>>
    /\ UNCHANGED <<teardown, remoteServer>>
    /\ Recorded

\* getAuthToken has settled, with the token stored when it was called or the
\* one stored now; startRemoteServer resumes: new RemoteServer({port,
\* authToken, tlsCredentials, ...}) is assigned to this.remoteServer. Its
\* server.listen(port) binds the port unless another instance listens on it.
RemoteServerConstructed(h) ==
    /\ handlers[h].pc = "getAuthToken"
    /\ \E tok \in {handlers[h].read, storedToken} :
          instances' = Append(instances,
                              [authToken |-> tok, cert |-> certificate,
                               listening |-> \A i \in DOMAIN instances :
                                                ~instances[i].listening])
    /\ remoteServer' = Len(instances) + 1
    /\ handlers' = [handlers EXCEPT ![h].pc = "idle"]
    /\ last' = Did("startRemoteServer", 0, 0, "none", {}, "none", {}, "none")
    /\ UNCHANGED <<ws, closeCode, connLocal, authTimer, clients, sessionOwnership,
                   sessions, dying, nextSession>>
    /\ UNCHANGED <<optionVars, serviceVars, poolVars, gatewayVars>>
    /\ UNCHANGED <<teardown, storedToken, certificate>>
    /\ Recorded

NextRegen ==
    \/ \E h \in RegenerateHandlers : Regenerate(h)
    \/ \E h \in RegenerateHandlers : Regenerated(h)
    \/ \E h \in RegenerateHandlers : RemoteServerConstructed(h)

SpecRegen == Init /\ [][NextRegen]_vars

(* ----------------------- PersonalAgent.shutdown ------------------------ *)
\* stopService(id) returns a promise that waits for the 'exit' of the handle
\* in service.process
stopPending(id) == services[id].process # "null"

\* the promises Promise.all of stopAll waits for: those that settle when the
\* child exits, and those on a handle whose spawn failed
stopAll == {id \in DOMAIN services : stopPending(id) /\ services[id].process = "child"}
stopAllLost == {id \in DOMAIN services : stopPending(id) /\ services[id].process = "failed"}

\* PTYManager.closeAll: closeSession for every session
closeAll == dying \cup sessions

\* the await of shutdown has settled and its continuation is the next job
Resumable == teardown.step = "stopAll" /\ teardown.awaiting = {} /\ teardown.lost = {}

\* the tray's Quit: shutdown() up to its await of serviceManager.stopAll()
Shutdown ==
    /\ teardown.step = "none"
    /\ teardown' = [step |-> "stopAll", awaiting |-> stopAll, lost |-> stopAllLost]
    /\ UNCHANGED <<storedToken, certificate, handlers, instances, remoteServer>>
    /\ last' = Did("shutdown", 0, 0, "none", {}, "none", {}, "none")
    /\ UNCHANGED <<ws, closeCode, connLocal, authTimer, clients, sessionOwnership,
                   sessions, dying, nextSession>>
    /\ UNCHANGED <<optionVars, serviceVars, poolVars, gatewayVars>>
    /\ Recorded

\* shutdown() after the await: ptyManager.closeAll(), remoteServer.close(),
\* app.quit()
ShutdownResumes ==
    /\ Resumable
    /\ sessions' = {}
    /\ managed' = EmptyMap
    /\ dying' = closeAll
    /\ ws' = close
    /\ wss' = "closed"
    /\ teardown' = [teardown EXCEPT !.step = "quit"]
    /\ UNCHANGED <<storedToken, certificate, handlers, instances, remoteServer>>
    /\ last' = Did("shutdown:resumed", 0, 0, "none", {}, "none", {}, "closeAll")
    /\ UNCHANGED <<closeCode, connLocal, authTimer, clients, sessionOwnership, nextSession,
                   generation, server>>
    /\ UNCHANGED <<optionVars, serviceVars>>
    /\ Recorded

(* ------------------------- specifications ------------------------------ *)
\* routing: connections authenticate with the server's token
Next ==
    \/ \E c \in ConnIds, ip \in PeerInputs : Accept(c, ip)
    \/ \E c \in ConnIds : WsClose(c)
    \/ \E c \in ConnIds, cid \in ClientIdInputs : AuthFrame(c, TRUE, ServerToken, cid, NoRequestId)
    \/ \E c \in ConnIds : NotAuthenticated(c, NoRequestId)
    \/ \E c \in ConnIds : PtyCreate(c, PlainOptions, NoRequestId)
    \/ \E c \in ConnIds, s \in SidInputs : PtyWrite(c, s, NoRequestId)
    \/ \E c \in ConnIds, s \in SidInputs, cols \in DimInputs :
          PtyResize(c, s, cols, 1, NoRequestId)
    \/ \E c \in ConnIds, s \in SidInputs : PtyClose(c, s, NoRequestId)
    \/ \E c \in ConnIds, s \in SidInputs : PtySubscribe(c, s, NoRequestId)
    \/ \E c \in ConnIds, s \in SidInputs : PtyUnsubscribe(c, s, NoRequestId)
    \/ \E s \in SessionIds : PtyData(s)
    \/ \E s \in SessionIds : PtyExit(s)
    \/ IpcCreateSession(PlainOptions)
    \/ \E s \in SessionIds : IpcCloseSession(s)
    \/ ServiceStatusEvent

Spec == Init /\ [][Next]_vars

\* the handshake: any token, the auth timer, frames before authentication
NextAuth ==
    \/ \E c \in ConnIds, ip \in PeerInputs : Accept(c, ip)
    \/ \E c \in ConnIds : AuthTimeout(c)
    \/ \E c \in ConnIds : WsClose(c)
    \/ \E c \in ConnIds, tok \in TokenInputs, cid \in ClientIdInputs :
          AuthFrame(c, TRUE, tok, cid, NoRequestId)
    \/ \E c \in ConnIds : AuthFrame(c, FALSE, <<>>, NoClientId, NoRequestId)
    \/ \E c \in ConnIds : NotAuthenticated(c, NoRequestId)

SpecAuth == Init /\ [][NextAuth]_vars

\* the origin filter: the server built with either value of
\* restrictToTailscale, peers of every address
InitOrigin ==
    /\ ws = [c \in ConnIds |-> "none"]
    /\ closeCode = [c \in ConnIds |-> 0]
    /\ connLocal = [c \in ConnIds |-> FALSE]
    /\ authTimer = [c \in ConnIds |-> "none"]
    /\ clients = EmptyMap
    /\ sessionOwnership = EmptyMap
    /\ sessions = {}
    /\ managed = EmptyMap
    /\ generation = 0
    /\ wss = "listening"
    /\ server = [c \in ConnIds |-> 0]
    /\ teardown = [step |-> "none", awaiting |-> {}, lost |-> {}]
    /\ recording = FALSE
    /\ produced = [s \in SessionIds |-> 0]
    /\ creator = [tracked |-> FALSE, by |-> [s \in SessionIds |-> {}]]
    /\ wire = [c \in ConnIds |-> <<>>]
    /\ bufferedAmount = [stalled |-> {}, n |-> [c \in ConnIds |-> 0]]
    /\ storedToken = 0
    /\ certificate = 0
    /\ handlers = [h \in RegenerateHandlers |-> [pc |-> "idle", calls |-> 0, read |-> 0]]
    /\ instances = <<[authToken |-> 0, cert |-> 0, listening |-> TRUE]>>
    /\ remoteServer = 1
    /\ dying = {}
    /\ nextSession = 1
    /\ restrictToTailscale \in BOOLEAN
    /\ services = [id \in RegisteredIds |-> registerService(TRUE)]
    /\ last = Did("init", 0, 0, "none", {}, "none", {}, "none")

NextOrigin ==
    \/ \E c \in ConnIds, ip \in AddressInputs : Accept(c, ip)
    \/ \E c \in ConnIds : RejectedSocketClosed(c)
    \/ \E c \in ConnIds : AuthTimeout(c)
    \/ \E c \in ConnIds : WsClose(c)
    \/ \E c \in ConnIds : AuthFrame(c, TRUE, ServerToken, NoClientId, NoRequestId)
    \/ \E c \in ConnIds : NotAuthenticated(c, NoRequestId)

SpecOrigin == InitOrigin /\ [][NextOrigin]_vars

\* request / reply correlation: one connection, frames with and without a
\* requestId
ReqConnIds == {1}

NextReq ==
    \/ \E c \in ReqConnIds, ip \in PeerInputs : Accept(c, ip)
    \/ \E c \in ReqConnIds : WsClose(c)
    \/ \E c \in ReqConnIds, cid \in ClientIdInputs, rid \in RequestIdInputs :
          AuthFrame(c, TRUE, ServerToken, cid, rid)
    \/ \E c \in ReqConnIds, rid \in RequestIdInputs : NotAuthenticated(c, rid)
    \/ \E c \in ReqConnIds, rid \in RequestIdInputs : PtyCreate(c, PlainOptions, rid)
    \/ \E c \in ReqConnIds, s \in SidInputs, rid \in RequestIdInputs : PtyWrite(c, s, rid)
    \/ \E c \in ReqConnIds, s \in SidInputs, cols \in DimInputs, rows \in DimInputs,
          rid \in RequestIdInputs : PtyResize(c, s, cols, rows, rid)
    \/ \E c \in ReqConnIds, s \in SidInputs, rid \in RequestIdInputs : PtyClose(c, s, rid)
    \/ \E c \in ReqConnIds, s \in SidInputs, rid \in RequestIdInputs :
          PtySubscribe(c, s, rid)
    \/ \E c \in ReqConnIds, s \in SidInputs, rid \in RequestIdInputs :
          PtyUnsubscribe(c, s, rid)
    \/ \E s \in SessionIds : PtyData(s)
    \/ \E s \in SessionIds : PtyExit(s)

SpecReq == Init /\ [][NextReq]_vars

\* the service supervisor: one connection, the service registered with either
\* value of restartOnFailure
InitSvc ==
    /\ ws = [c \in ConnIds |-> "none"]
    /\ closeCode = [c \in ConnIds |-> 0]
    /\ connLocal = [c \in ConnIds |-> FALSE]
    /\ authTimer = [c \in ConnIds |-> "none"]
    /\ clients = EmptyMap
    /\ sessionOwnership = EmptyMap
    /\ sessions = {}
    /\ managed = EmptyMap
    /\ generation = 0
    /\ wss = "listening"
    /\ server = [c \in ConnIds |-> 0]
    /\ teardown = [step |-> "none", awaiting |-> {}, lost |-> {}]
    /\ recording = FALSE
    /\ produced = [s \in SessionIds |-> 0]
    /\ creator = [tracked |-> FALSE, by |-> [s \in SessionIds |-> {}]]
    /\ wire = [c \in ConnIds |-> <<>>]
    /\ bufferedAmount = [stalled |-> {}, n |-> [c \in ConnIds |-> 0]]
    /\ storedToken = 0
    /\ certificate = 0
    /\ handlers = [h \in RegenerateHandlers |-> [pc |-> "idle", calls |-> 0, read |-> 0]]
    /\ instances = <<[authToken |-> 0, cert |-> 0, listening |-> TRUE]>>
    /\ remoteServer = 1
    /\ dying = {}
    /\ nextSession = 1
    /\ restrictToTailscale = TRUE
    /\ \E rof \in BOOLEAN : services = [id \in RegisteredIds |-> registerService(rof)]
    /\ last = Did("init", 0, 0, "none", {}, "none", {}, "none")

NextSvc ==
    \/ \E c \in ReqConnIds, ip \in PeerInputs : Accept(c, ip)
    \/ \E c \in ReqConnIds : WsClose(c)
    \/ \E c \in ReqConnIds : AuthFrame(c, TRUE, ServerToken, NoClientId, NoRequestId)
    \/ \E c \in ReqConnIds, id \in ServiceIds, rid \in RequestIdInputs :
          ServiceStart(c, id, rid)
    \/ \E c \in ReqConnIds, id \in ServiceIds, rid \in RequestIdInputs :
          ServiceStop(c, id, rid)
    \/ \E c \in ReqConnIds, id \in ServiceIds, rid \in RequestIdInputs :
          ServiceRestart(c, id, rid)
    \/ \E c \in ReqConnIds : ServiceList(c, NoRequestId)
    \/ \E id \in RegisteredIds, code \in ExitCodes : ChildExit(id, code)
    \/ \E id \in RegisteredIds : ChildError(id)
    \/ \E id \in RegisteredIds : RestartTimer(id)

SpecSvc == InitSvc /\ [][NextSvc]_vars

\* the children of a service: the service supervisor with frames that carry
\* no requestId, a child that cannot be signalled, and the exit of a child that
\* service.process no longer holds
NextChild ==
    \/ \E c \in ReqConnIds, ip \in PeerInputs : Accept(c, ip)
    \/ \E c \in ReqConnIds : WsClose(c)
    \/ \E c \in ReqConnIds : AuthFrame(c, TRUE, ServerToken, NoClientId, NoRequestId)
    \/ \E c \in ReqConnIds, id \in RegisteredIds : ServiceStart(c, id, NoRequestId)
    \/ \E c \in ReqConnIds, id \in RegisteredIds : ServiceStop(c, id, NoRequestId)
    \/ \E c \in ReqConnIds, id \in RegisteredIds : ServiceRestart(c, id, NoRequestId)
    \/ \E id \in RegisteredIds, code \in ExitCodes : ChildExit(id, code)
    \/ \E id \in RegisteredIds : ChildError(id)
    \/ \E id \in RegisteredIds : ForceKillFails(id)
    \/ \E id \in RegisteredIds, code \in ExitCodes : OrphanExit(id, code)
    \/ \E id \in RegisteredIds : RestartTimer(id)

SpecChild == InitSvc /\ [][NextChild]_vars

\* sessions and devices: two connections that authenticate as either device,
\* create, subscribe, unsubscribe, close, disconnect and reconnect, the
\* renderer's create, the PTY's data and exit, with the creator of each
\* session tracked
InitOwner ==
    /\ ws = [c \in ConnIds |-> "none"]
    /\ closeCode = [c \in ConnIds |-> 0]
    /\ connLocal = [c \in ConnIds |-> FALSE]
    /\ authTimer = [c \in ConnIds |-> "none"]
    /\ clients = EmptyMap
    /\ sessionOwnership = EmptyMap
    /\ sessions = {}
    /\ managed = EmptyMap
    /\ generation = 0
    /\ wss = "listening"
    /\ server = [c \in ConnIds |-> 0]
    /\ teardown = [step |-> "none", awaiting |-> {}, lost |-> {}]
    /\ recording = FALSE
    /\ produced = [s \in SessionIds |-> 0]
    /\ creator = [tracked |-> TRUE, by |-> [s \in SessionIds |-> {}]]
    /\ wire = [c \in ConnIds |-> <<>>]
    /\ bufferedAmount = [stalled |-> {}, n |-> [c \in ConnIds |-> 0]]
    /\ storedToken = 0
    /\ certificate = 0
    /\ handlers = [h \in RegenerateHandlers |-> [pc |-> "idle", calls |-> 0, read |-> 0]]
    /\ instances = <<[authToken |-> 0, cert |-> 0, listening |-> TRUE]>>
    /\ remoteServer = 1
    /\ dying = {}
    /\ nextSession = 1
    /\ restrictToTailscale = TRUE
    /\ services = [id \in RegisteredIds |-> registerService(TRUE)]
    /\ last = Did("init", 0, 0, "none", {}, "none", {}, "none")

NextOwner ==
    \/ \E c \in ConnIds, ip \in PeerInputs : Accept(c, ip)
    \/ \E c \in ConnIds : WsClose(c)
    \/ \E c \in ConnIds, cid \in ClientIdInputs : AuthFrame(c, TRUE, ServerToken, cid, NoRequestId)
    \/ \E c \in ConnIds : PtyCreate(c, PlainOptions, NoRequestId)
    \/ \E c \in ConnIds, s \in SessionIds : PtyClose(c, s, NoRequestId)
    \/ \E c \in ConnIds, s \in SessionIds : PtySubscribe(c, s, NoRequestId)
    \/ \E c \in ConnIds, s \in SessionIds : PtyUnsubscribe(c, s, NoRequestId)
    \/ \E s \in SessionIds : PtyData(s)
    \/ \E s \in SessionIds : PtyExit(s)
    \/ IpcCreateSession(PlainOptions)

SpecOwner == InitOwner /\ [][NextOwner]_vars

\* the gate: two connections, authenticated or not, that send frames for the
\* PTY pool and the services, with the events of both
NextGate ==
    \/ \E c \in ConnIds : Accept(c, TailscalePeer)
    \/ \E c \in ConnIds : WsClose(c)
    \/ \E c \in ConnIds, tok \in {<<7, 9>>, <<7, 8>>} :
          AuthFrame(c, TRUE, tok, NoClientId, NoRequestId)
    \/ \E c \in ConnIds : NotAuthenticated(c, NoRequestId)
    \/ \E c \in ConnIds : PtyCreate(c, PlainOptions, NoRequestId)
    \/ \E c \in ConnIds, s \in SessionIds : PtyWrite(c, s, NoRequestId)
    \/ \E c \in ConnIds, s \in SessionIds : PtyClose(c, s, NoRequestId)
    \/ \E s \in SessionIds : PtyData(s)
    \/ \E s \in SessionIds : PtyExit(s)
    \/ \E c \in ConnIds, id \in RegisteredIds : ServiceStart(c, id, NoRequestId)
    \/ \E c \in ConnIds, id \in RegisteredIds : ServiceStop(c, id, NoRequestId)
    \/ \E c \in ConnIds, id \in RegisteredIds : ServiceSubscribe(c, id, NoRequestId)
    \/ \E id \in RegisteredIds : ServiceOutput(id)
    \/ \E id \in RegisteredIds : ChildExit(id, 0)

SpecGate == Init /\ [][NextGate]_vars

\* a slow client: the peer of connection 1 has stopped reading its socket,
\* the peer of connection 2 reads; both subscribe to a PTY that keeps
\* producing. The count of queued messages is followed up to MaxBuffered.
InitSlow ==
    /\ ws = [c \in ConnIds |-> "none"]
    /\ closeCode = [c \in ConnIds |-> 0]
    /\ connLocal = [c \in ConnIds |-> FALSE]
    /\ authTimer = [c \in ConnIds |-> "none"]
    /\ clients = EmptyMap
    /\ sessionOwnership = EmptyMap
    /\ sessions = {}
    /\ managed = EmptyMap
    /\ generation = 0
    /\ wss = "listening"
    /\ server = [c \in ConnIds |-> 0]
    /\ teardown = [step |-> "none", awaiting |-> {}, lost |-> {}]
    /\ recording = FALSE
    /\ produced = [s \in SessionIds |-> 0]
    /\ creator = [tracked |-> FALSE, by |-> [s \in SessionIds |-> {}]]
    /\ wire = [c \in ConnIds |-> <<>>]
    /\ bufferedAmount = [stalled |-> {1}, n |-> [c \in ConnIds |-> 0]]
    /\ storedToken = 0
    /\ certificate = 0
    /\ handlers = [h \in RegenerateHandlers |-> [pc |-> "idle", calls |-> 0, read |-> 0]]
    /\ instances = <<[authToken |-> 0, cert |-> 0, listening |-> TRUE]>>
    /\ remoteServer = 1
    /\ dying = {}
    /\ nextSession = 1
    /\ restrictToTailscale = TRUE
    /\ services = [id \in RegisteredIds |-> registerService(TRUE)]
    /\ last = Did("init", 0, 0, "none", {}, "none", {}, "none")

NextSlow ==
    \/ \E c \in ConnIds, ip \in PeerInputs : Accept(c, ip)
    \/ \E c \in ConnIds : WsClose(c)
    \/ \E c \in ConnIds : AuthTimeout(c)
    \/ \E c \in ConnIds : AuthFrame(c, TRUE, ServerToken, NoClientId, NoRequestId)
    \/ \E c \in ConnIds : PtyCreate(c, PlainOptions, NoRequestId)
    \/ \E c \in ConnIds, s \in SessionIds : PtySubscribe(c, s, NoRequestId)
    \/ \E c \in ConnIds, s \in SessionIds : PtyWrite(c, s, NoRequestId)
    \/ \E s \in SessionIds : PtyData(s)
    \/ \E s \in SessionIds : PtyExit(s)

SpecSlow == InitSlow /\ [][NextSlow]_vars

\* the PTY pool: one connection, create requests with every option, resize
\* requests with every size, the renderer's IPC calls
NextPool ==
    \/ \E c \in ReqConnIds, ip \in PeerInputs : Accept(c, ip)
    \/ \E c \in ReqConnIds : WsClose(c)
    \/ \E c \in ReqConnIds : AuthFrame(c, TRUE, ServerToken, NoClientId, NoRequestId)
    \/ \E c \in ReqConnIds, options \in OptionInputs : PtyCreate(c, options, NoRequestId)
    \/ \E c \in ReqConnIds, s \in SidInputs, cols \in WideDimInputs, rows \in WideDimInputs :
          PtyResize(c, s, cols, rows, NoRequestId)
    \/ \E c \in ReqConnIds, s \in SidInputs : PtyClose(c, s, NoRequestId)
    \/ \E s \in SessionIds : PtyExit(s)
    \/ \E options \in OptionInputs : IpcCreateSession(options)
    \/ \E s \in SessionIds : IpcCloseSession(s)

SpecPool == Init /\ [][NextPool]_vars

\* the Gateway's life: the token is regenerated and the RemoteServer replaced
\* while connections are open; frames carry the old or the new token
NextGateway ==
    \/ \E c \in ConnIds, ip \in PeerInputs : Accept(c, ip)
    \/ \E c \in ConnIds : AuthTimeout(c)
    \/ \E c \in ConnIds : WsClose(c)
    \/ \E c \in ConnIds, g \in 0..MaxRegenerations :
          AuthFrame(c, TRUE, TokenOf(g), NoClientId, NoRequestId)
    \/ \E c \in ConnIds : NotAuthenticated(c, NoRequestId)
    \/ \E c \in ConnIds : PtyCreate(c, PlainOptions, NoRequestId)
    \/ \E c \in ConnIds, s \in SidInputs : PtyWrite(c, s, NoRequestId)
    \/ \E s \in SessionIds : PtyData(s)
    \/ RegenerateAuthToken
    \/ startRemoteServer

SpecGateway == Init /\ [][NextGateway]_vars

\* what a client is sent, in order: one connection, the messages recorded
InitWire ==
    /\ ws = [c \in ConnIds |-> "none"]
    /\ closeCode = [c \in ConnIds |-> 0]
    /\ connLocal = [c \in ConnIds |-> FALSE]
    /\ authTimer = [c \in ConnIds |-> "none"]
    /\ clients = EmptyMap
    /\ sessionOwnership = EmptyMap
    /\ sessions = {}
    /\ managed = EmptyMap
    /\ generation = 0
    /\ wss = "listening"
    /\ server = [c \in ConnIds |-> 0]
    /\ teardown = [step |-> "none", awaiting |-> {}, lost |-> {}]
    /\ recording = TRUE
    /\ produced = [s \in SessionIds |-> 0]
    /\ creator = [tracked |-> FALSE, by |-> [s \in SessionIds |-> {}]]
    /\ wire = [c \in ConnIds |-> <<>>]
    /\ bufferedAmount = [stalled |-> {}, n |-> [c \in ConnIds |-> 0]]
    /\ storedToken = 0
    /\ certificate = 0
    /\ handlers = [h \in RegenerateHandlers |-> [pc |-> "idle", calls |-> 0, read |-> 0]]
    /\ instances = <<[authToken |-> 0, cert |-> 0, listening |-> TRUE]>>
    /\ remoteServer = 1
    /\ dying = {}
    /\ nextSession = 1
    /\ restrictToTailscale = TRUE
    /\ services = [id \in RegisteredIds |-> registerService(TRUE)]
    /\ last = Did("init", 0, 0, "none", {}, "none", {}, "none")

NextWire ==
    \/ \E c \in ReqConnIds, ip \in PeerInputs : Accept(c, ip)
    \/ \E c \in ReqConnIds : WsClose(c)
    \/ \E c \in ReqConnIds : AuthFrame(c, TRUE, ServerToken, NoClientId, NoRequestId)
    \/ \E c \in ReqConnIds : PtyCreate(c, PlainOptions, NoRequestId)
    \/ \E c \in ReqConnIds, s \in SidInputs : PtySubscribe(c, s, NoRequestId)
    \/ \E c \in ReqConnIds, s \in SidInputs : PtyUnsubscribe(c, s, NoRequestId)
    \/ \E s \in SessionIds : PtyData(s)
    \/ \E s \in SessionIds : PtyExit(s)
    \/ IpcCreateSession(PlainOptions)
    \/ ServiceStatusEvent

SpecWire == InitWire /\ [][NextWire]_vars

\* the fan-out of service events: two connections that subscribe to services
\* and unsubscribe, a service that starts, writes output and exits
NextFanout ==
    \/ \E c \in ConnIds, ip \in PeerInputs : Accept(c, ip)
    \/ \E c \in ConnIds : WsClose(c)
    \/ \E c \in ConnIds : AuthFrame(c, TRUE, ServerToken, NoClientId, NoRequestId)
    \/ \E c \in ConnIds, id \in RegisteredIds : ServiceStart(c, id, NoRequestId)
    \/ \E c \in ConnIds, id \in ServiceIds : ServiceSubscribe(c, id, NoRequestId)
    \/ \E c \in ConnIds, id \in ServiceIds : ServiceUnsubscribe(c, id, NoRequestId)
    \/ \E id \in RegisteredIds : ServiceOutput(id)
    \/ \E id \in RegisteredIds, code \in ExitCodes : ChildExit(id, code)
    \/ \E id \in RegisteredIds : RestartTimer(id)

SpecFanout == Init /\ [][NextFanout]_vars

\* shutdown: one connection that starts services and creates sessions, the
\* children of the services, and the tray's Quit; the continuation of shutdown
\* runs before any other handler, and nothing runs once the application has
\* quit; the 'error' of a failed spawn comes right after the spawn, so never
\* while stopAll waits for the child's exit
Running == ~Resumable /\ teardown.step # "quit"

NextShutdown ==
    \/ Running /\ \E c \in ReqConnIds, ip \in PeerInputs : Accept(c, ip)
    \/ Running /\ \E c \in ReqConnIds : WsClose(c)
    \/ Running /\ \E c \in ReqConnIds :
                     AuthFrame(c, TRUE, ServerToken, NoClientId, NoRequestId)
    \/ Running /\ \E c \in ReqConnIds : PtyCreate(c, PlainOptions, NoRequestId)
    \/ Running /\ \E s \in SessionIds : PtyExit(s)
    \/ Running /\ \E c \in ReqConnIds, id \in RegisteredIds :
                     ServiceStart(c, id, NoRequestId)
    \/ Running /\ \E id \in RegisteredIds, code \in ExitCodes : ChildExit(id, code)
    \/ Running /\ \E id \in RegisteredIds \ teardown.awaiting : ChildError(id)
    \/ Running /\ \E id \in RegisteredIds : RestartTimer(id)
    \/ Running /\ Shutdown
    \/ ShutdownResumes

\* a child that stopService has sent SIGTERM, and SIGKILL 10 s later, exits;
\* the continuation of a settled await runs
SpecShutdown ==
    /\ InitSvc
    /\ [][NextShutdown]_vars
    /\ WF_vars(ShutdownResumes)
    /\ \A id \in RegisteredIds :
          WF_vars(/\ Running
                  /\ id \in teardown.awaiting
                  /\ \E code \in ExitCodes : ChildExit(id, code))

\* routing with the PTY's exit event delivered: a live or killed PTY
\* eventually emits 'exit'
SpecExit == Init /\ [][Next]_vars /\ \A s \in SessionIds : WF_vars(PtyExit(s))

(* ------------------------------ claims --------------------------------- *)
\* access as the claims state it: local, owner or subscriber
MayAccess(c, s) ==
    \/ clients[c].isLocal
    \/ s \in clients[c].ownedSessions
    \/ s \in clients[c].sessionSubscriptions

PoolCallOf(op) ==
    IF op = "pty/write" THEN "write" ELSE IF op = "pty/resize" THEN "resize" ELSE "close"

\* what C1 asks of a write, resize or close frame of client c on session s
AccessDecided(c, s) ==
    IF MayAccess(c, s)
    THEN last'.pool = PoolCallOf(last'.op) /\ last'.reply = "none"
    ELSE /\ last'.reply = "error:denied"
         /\ last'.pool = "none"
         /\ sessions' = sessions
         /\ dying' = dying

\* C1 as stated: every pty write, resize or close frame of an authenticated
\* client is applied to the PTY pool iff the client is local, owns the session
\* or is subscribed to it, and is answered 'Access denied' and applied to
\* nothing otherwise.
C1_AsStated ==
    [][\A c \in ConnIds, s \in SessionIds :
         (/\ last'.op \in {"pty/write", "pty/resize", "pty/close"}
          /\ last'.conn = c /\ last'.sid = s)
         => AccessDecided(c, s)]_vars

\* C1 amended: the same for every write frame, every close frame and every
\* resize frame that carries non-zero cols and rows; a resize frame whose cols
\* or rows is 0 or absent is ignored without a reply, whatever the access.
C1_AccessControl ==
    [][\A c \in ConnIds, s \in SessionIds :
         (last'.conn = c /\ last'.sid = s) =>
           /\ last'.op \in {"pty/write", "pty/close"} => AccessDecided(c, s)
           /\ last'.op = "pty/resize" =>
                IF last'.dims
                THEN AccessDecided(c, s)
                ELSE last'.pool = "none" /\ last'.reply = "none"]_vars

\* a remote client that neither owns nor subscribes to a live session has
\* been denied a write
C1_Witness ==
    /\ last.op = "pty/write"
    /\ last.reply = "error:denied"
    /\ last.conn \in DOMAIN clients
    /\ ~clients[last.conn].isLocal
    /\ last.sid \in sessions

\* C2: a pty/subscribe frame of client c for session s adds s to c's
\* sessionSubscriptions iff c is local or sessionOwnership[s] is c's deviceId;
\* otherwise c is answered a system/error and its subscriptions are unchanged.
C2_SubscribeRule ==
    [][\A c \in ConnIds, s \in SessionIds :
         (last'.op = "pty/subscribe" /\ last'.conn = c /\ last'.sid = s) =>
           IF \/ clients[c].isLocal
              \/ s \in DOMAIN sessionOwnership /\ sessionOwnership[s] = clients[c].deviceId
           THEN /\ clients'[c].sessionSubscriptions
                     = clients[c].sessionSubscriptions \cup {s}
                /\ last'.reply = "none"
           ELSE /\ clients'[c].sessionSubscriptions = clients[c].sessionSubscriptions
                /\ last'.reply = "error:denied"]_vars

\* a remote client has been refused a subscription to a live session of
\* another device
C2_Witness ==
    /\ last.op = "pty/subscribe"
    /\ last.reply = "error:denied"
    /\ last.conn \in DOMAIN clients
    /\ ~clients[last.conn].isLocal
    /\ last.sid \in sessions
    /\ last.sid \notin clients[last.conn].sessionSubscriptions

\* C3: a pty/data event of session s is sent only to clients that have s in
\* their sessionSubscriptions when the PTY produces the data.
C3_DataOnlyToSubscribers ==
    last.event = "pty/data" =>
        \A r \in last.recipients :
            r \in DOMAIN clients /\ last.sid \in clients[r].sessionSubscriptions

\* data of a session has been delivered to one client while another
\* authenticated client, not subscribed, got nothing
C3_Witness ==
    /\ last.event = "pty/data"
    /\ last.recipients # {}
    /\ \E c \in DOMAIN clients :
          c \notin last.recipients /\ last.sid \notin clients[c].sessionSubscriptions

\* C4: every session the PTY pool lists has an owner in sessionOwnership,
\* whichever path created it.
C4_EveryListedSessionOwned == \A s \in getAllSessions : s \in DOMAIN sessionOwnership

\* C5: no session id outside the PTY pool's list has an entry in
\* sessionOwnership, whichever path removed the session.
C5_NoOwnerOfUnlistedSession == \A s \in DOMAIN sessionOwnership : s \in getAllSessions

\* C6: a successful auth with deviceId D sets both ownedSessions and
\* sessionSubscriptions of the connection to exactly the sessions that
\* sessionOwnership maps to D.
C6_ReconnectRestoresOwned ==
    (last.op = "auth" /\ last.reply = "auth/success") =>
        LET c == last.conn
            mine == {s \in DOMAIN sessionOwnership :
                       sessionOwnership[s] = clients[c].deviceId}
        IN  /\ clients[c].ownedSessions = mine
            /\ clients[c].sessionSubscriptions = mine

\* device DevA has authenticated and been given back a session that
\* sessionOwnership records as its own
C6_Witness ==
    /\ last.op = "auth"
    /\ last.reply = "auth/success"
    /\ clients[last.conn].ownedSessions # {}
    /\ clients[last.conn].deviceId = DevA

\* C7: the auth/success reply lists, for a remote client of device D, exactly
\* the live sessions owned by D, and for a local client every live session;
\* the client may write to every session listed.
C7_AuthReplySessions ==
    (last.op = "auth" /\ last.reply = "auth/success") =>
        LET c == last.conn
        IN  /\ last.sessions =
                 IF clients[c].isLocal
                 THEN sessions
                 ELSE {s \in sessions :
                         /\ s \in DOMAIN sessionOwnership
                         /\ sessionOwnership[s] = clients[c].deviceId}
            /\ \A s \in last.sessions : MayAccess(c, s)

\* a remote device that owns nothing has been sent zero sessions while a
\* session of another owner is live
C7_Witness ==
    /\ last.op = "auth"
    /\ last.reply = "auth/success"
    /\ ~clients[last.conn].isLocal
    /\ last.sessions = {}
    /\ sessions # {}

\* C8: the close of a client's WebSocket removes the client from the clients
\* map and changes neither sessionOwnership nor the live sessions; no event
\* is fanned out to a connection that is not in the clients map.
C8_CloseKeepsOwnership ==
    [][/\ \A c \in ConnIds :
            (last'.op = "ws:close" /\ last'.conn = c) =>
                /\ c \notin DOMAIN clients'
                /\ sessionOwnership' = sessionOwnership
                /\ sessions' = sessions
                /\ dying' = dying
       /\ \A r \in last'.recipients : r \in DOMAIN clients' /\ ws'[r] = "open"]_vars

\* the last client has disconnected and its session is still owned and live
C8_Witness ==
    /\ last.op = "ws:close"
    /\ DOMAIN clients = {}
    /\ \E s \in sessions : s \in DOMAIN sessionOwnership

\* an auth frame on connection c whose token is a string other than the
\* server's token
BadTokenFrame(c) ==
    \E tok \in TokenInputs \ {ServerToken}, cid \in ClientIdInputs :
        AuthFrame(c, TRUE, tok, cid, NoRequestId)

\* an auth frame on connection c whose payload has no token field
NoTokenFrame(c) == AuthFrame(c, FALSE, <<>>, NoClientId, NoRequestId)

\* the server closes connection c with the code
ClosedWith(c, code) == ws'[c] = "closing" /\ closeCode'[c] = code

\* C9 as stated: every auth frame whose token is not the server's token
\* (other length, same length with a differing byte, or no token field)
\* makes the server close the connection with 4003; no client is registered
\* and no auth/success is sent for it.
C9_AsStated ==
    [][\A c \in ConnIds :
         ((BadTokenFrame(c) \/ NoTokenFrame(c)) /\ ws[c] = "open") =>
             /\ ClosedWith(c, CloseInvalidToken)
             /\ clients' = clients
             /\ last'.reply # "auth/success"]_vars

\* C9 amended: an auth frame that carries a token other than the server's
\* makes the server close the connection with 4003; an auth frame with no
\* token field is answered system/error 'Invalid message format' and the
\* connection stays open; in both cases no client is registered and no
\* auth/success is sent for the frame.
C9_InvalidTokenCloses ==
    [][\A c \in ConnIds :
         /\ (BadTokenFrame(c) /\ ws[c] = "open") =>
               /\ ClosedWith(c, CloseInvalidToken)
               /\ clients' = clients
               /\ last'.reply = "none"
         /\ (NoTokenFrame(c) /\ ws[c] = "open") =>
               /\ ws'[c] = "open"
               /\ closeCode'[c] = 0
               /\ clients' = clients
               /\ last'.reply = "error:format"]_vars

\* an unauthenticated connection has been closed with 4003 on its auth frame
C9_Witness ==
    /\ last.op = "auth"
    /\ ws[last.conn] = "closing"
    /\ closeCode[last.conn] = CloseInvalidToken
    /\ last.conn \notin DOMAIN clients

\* C10: a connection that is open and has not presented a valid auth frame
\* when its auth timer expires is closed with 4001; the timer of an open
\* connection is disarmed by nothing but a valid auth frame.
C10_TimeoutCloses ==
    [][\A c \in ConnIds :
         /\ (AuthTimeout(c) /\ ws[c] = "open" /\ c \notin DOMAIN clients) =>
               ClosedWith(c, CloseAuthTimeout)
         /\ (ws'[c] = "open" /\ c \notin DOMAIN clients') => authTimer'[c] = "armed"]_vars

\* the timer has expired on an unauthenticated connection, now closing with 4001
C10_Witness ==
    /\ last.op = "authTimeout"
    /\ ws[last.conn] = "closing"
    /\ closeCode[last.conn] = CloseAuthTimeout
    /\ last.conn \notin DOMAIN clients

\* C11: an auth frame on a connection that is already authenticated never
\* replaces the connection's deviceId by a different one.
C11_OneIdentityPerConnection ==
    [][\A c \in ConnIds :
         (/\ last'.op = "auth" /\ last'.conn = c
          /\ c \in DOMAIN clients /\ c \in DOMAIN clients') =>
             clients'[c].deviceId = clients[c].deviceId]_vars

\* C12: a pty, service or system frame on an open connection that has not
\* authenticated is answered 'Not authenticated', changes no client, session
\* or ownership state, and leaves the connection open with its auth timer
\* still armed.
C12_NotAuthenticatedKeepsOpen ==
    [][\A c \in ConnIds :
         (last'.op = "frame" /\ last'.conn = c /\ ws[c] = "open") =>
             /\ last'.reply = "error:notauth"
             /\ ws' = ws
             /\ closeCode' = closeCode
             /\ authTimer' = authTimer
             /\ authTimer[c] = "armed"
             /\ clients' = clients
             /\ sessionOwnership' = sessionOwnership
             /\ sessions' = sessions
             /\ dying' = dying]_vars

\* a frame has been refused on an open unauthenticated connection, still open
C12_Witness ==
    /\ last.op = "frame"
    /\ last.reply = "error:notauth"
    /\ ws[last.conn] = "open"
    /\ last.conn \notin DOMAIN clients
    /\ authTimer[last.conn] = "armed"

\* the address rule as C13 words it: after stripping a leading '::ffff:' the
\* address is 127.0.0.1 or ::1, or a dotted quad with first octet 100 and
\* second octet in 64..127
AdmissibleAddress(ip) ==
    LET quad == ip.parts
    IN  \/ quad = <<127, 0, 0, 1>>
        \/ quad = <<SegLoopback6>>
        \/ /\ Len(quad) = 4
           /\ \A i \in 1..4 : quad[i] \in 0..255
           /\ quad[1] = 100
           /\ quad[2] >= 64 /\ quad[2] <= 127

\* C13: with restrictToTailscale, the connection of a peer is admitted iff
\* its address satisfies the address rule; 100.63.255.255 and 100.128.0.0 are
\* refused, 100.64.0.0 and 100.127.255.255 admitted.
C13_AdmittedIffInRange ==
    (last.op = "accept" /\ restrictToTailscale /\ last.peer # NoAddress) =>
        /\ ws[last.conn] = "open" <=> AdmissibleAddress(last.peer)
        /\ ws[last.conn] = "rejected" <=> ~AdmissibleAddress(last.peer)
        /\ last.peer.parts \in {<<100, 63, 255, 255>>, <<100, 128, 0, 0>>}
              => ws[last.conn] = "rejected"
        /\ last.peer.parts \in {<<100, 64, 0, 0>>, <<100, 127, 255, 255>>}
              => ws[last.conn] = "open"

\* the IPv4-mapped peer ::ffff:100.127.255.255 has been admitted by a
\* restricting server
C13_Witness ==
    /\ last.op = "accept"
    /\ restrictToTailscale
    /\ last.peer = Addr(TRUE, <<100, 127, 255, 255>>)
    /\ ws[last.conn] = "open"

\* C14: with restrictToTailscale, the connection of an inadmissible peer is
\* closed with 4000 at once; while it lasts no auth timer is armed for it, it
\* is no client, and the only thing that happens on it is the end of its
\* socket: no frame on it is handled.
C14_RefusedBeforeAnyFrame ==
    [][\A c \in ConnIds :
         /\ (/\ last'.op = "accept" /\ last'.conn = c /\ restrictToTailscale
             /\ last'.peer # NoAddress /\ ~AdmissibleAddress(last'.peer)) =>
                ws'[c] = "rejected"
         /\ ws'[c] = "rejected" =>
                /\ closeCode'[c] = CloseNotAllowed
                /\ authTimer'[c] = "none"
                /\ c \notin DOMAIN clients'
         /\ (ws[c] = "rejected" /\ last'.conn = c) =>
                /\ last'.op = "socket:closed"
                /\ last'.reply = "none"]_vars

\* the peer 192.0.2.1 has been refused by a restricting server
C14_Witness ==
    /\ last.op = "accept"
    /\ restrictToTailscale
    /\ last.peer = Addr(FALSE, <<192, 0, 2, 1>>)
    /\ ws[last.conn] = "rejected"
    /\ closeCode[last.conn] = CloseNotAllowed

\* the pty frames an authenticated client sends
PtyFrameOps ==
    {"pty/create", "pty/write", "pty/resize", "pty/close", "pty/subscribe",
     "pty/unsubscribe"}

\* C17: after a client's pty/close of a live session has been applied, a
\* pty/exit of that session is eventually sent to that client.
C17_CloseLeadsToExit ==
    \A c \in ConnIds, s \in SessionIds :
        (/\ last.op = "pty/close" /\ last.pool = "close"
         /\ last.conn = c /\ last.sid = s /\ s \in dying)
          ~> (last.event = "pty/exit" /\ last.sid = s /\ c \in last.recipients)

\* C18: a frame of an authenticated client on an open connection is answered
\* iff it carried a requestId.
C18_ReplyIffRequestId ==
    [][\A c \in ConnIds :
         (/\ last'.op \in PtyFrameOps /\ last'.conn = c
          /\ c \in DOMAIN clients /\ ws[c] = "open") =>
             (last'.reply # "none" <=> last'.requestId # NoRequestId)]_vars

\* C19: every reply to a frame that carried a requestId carries that
\* requestId, error replies included.
C19_ReplyCarriesRequestId ==
    [][(last'.requestId # NoRequestId /\ last'.reply # "none") =>
           last'.replyId = last'.requestId]_vars

\* C15: a stop of service id while an auto-restart of id is pending cancels
\* it: after the stop no restart timer of id is left.
C15_StopCancelsRestart ==
    [][\A id \in RegisteredIds :
         (last'.op = "service/stop" /\ last'.service = id /\ services[id].timers > 0)
            => services'[id].timers = 0]_vars

\* C16: when the child of a service has exited, a restart is pending if
\* restartOnFailure is set and the code is not 0, and none is pending
\* otherwise, so that nothing but an explicit start will start the service.
C16_RestartOnlyAfterFailure ==
    last.op = "child:exit" =>
        LET svc == services[last.service]
        IN  IF svc.restartOnFailure /\ last.code # 0
            THEN svc.timers > 0
            ELSE svc.timers = 0

\* C20: a start, stop or restart frame that names a service never registered
\* is answered with a system/error and changes no service.
C20_UnknownServiceRejected ==
    [][\A c \in ConnIds :
         (/\ last'.op \in {"service/start", "service/stop", "service/restart"}
          /\ last'.conn = c /\ last'.service \notin RegisteredIds
          /\ c \in DOMAIN clients /\ ws[c] = "open") =>
             /\ last'.reply \in ErrorReplies
             /\ services' = services]_vars

\* C21: a pty/write or pty/resize frame of an authenticated client, local or
\* remote, that names a session id not in the PTY pool is a silent no-op: no
\* reply is sent and no session, subscription or ownership changes.
C21_UnknownSessionSilent ==
    [][\A c \in ConnIds, s \in SessionIds :
         (/\ last'.op \in {"pty/write", "pty/resize"}
          /\ last'.conn = c /\ last'.sid = s
          /\ s \notin sessions /\ ws[c] = "open") =>
             /\ last'.reply = "none"
             /\ clients' = clients
             /\ sessionOwnership' = sessionOwnership
             /\ sessions' = sessions
             /\ dying' = dying]_vars

\* C22: a pty/subscribe frame of an authenticated client, local or remote,
\* that names a session id not in the PTY pool is answered with a system/error
\* and the id is not added to the client's sessionSubscriptions.
C22_UnknownSubscribeRejected ==
    [][\A c \in ConnIds, s \in SessionIds :
         (/\ last'.op = "pty/subscribe"
          /\ last'.conn = c /\ last'.sid = s
          /\ s \notin sessions /\ ws[c] = "open") =>
             /\ last'.reply \in ErrorReplies
             /\ clients'[c].sessionSubscriptions = clients[c].sessionSubscriptions]_vars

\* C23: every live PTY session has cols >= 1 and rows >= 1, whatever integers
\* the create and resize requests carried.
C23_DimensionsPositive ==
    \A s \in DOMAIN managed : managed[s].cols >= 1 /\ managed[s].rows >= 1

\* the shell and the cwd a create request may keep, as C24 words them: one of
\* the seven allow-listed paths; an absolute path without '..'
AllowListed(v) == v.kind = "string" /\ v.text \in ALLOWED_SHELLS

AbsoluteWithoutDotDot(v) ==
    /\ v.kind = "string"
    /\ Len(v.chars) >= 1
    /\ v.chars[1] = "/"
    /\ \A i \in 1..(Len(v.chars) - 1) : ~(v.chars[i] = "." /\ v.chars[i + 1] = ".")

\* C24: a create request never fails because of its shell or cwd: a session
\* is created, with the supplied shell if it is allow-listed and the default
\* shell otherwise, and with the supplied cwd if it is absolute and free of
\* '..' and the user home otherwise.
C24_ShellAndCwdReplaced ==
    last.op \in {"pty/create", "ipc:create-session"} =>
        /\ last.pool = "create"
        /\ last.sid \in DOMAIN managed
        /\ LET o == last.options
               created == managed[last.sid]
           IN  /\ o.shell.kind # "absent" =>
                     created.shell = IF AllowListed(o.shell) THEN o.shell.text
                                                             ELSE defaultShell
               /\ o.cwd.kind # "absent" =>
                     created.cwd = IF AbsoluteWithoutDotDot(o.cwd) THEN o.cwd.chars
                                                                   ELSE Home

\* C25: the regeneration of the auth token terminates every connection that
\* is open, authenticated or not, and no connection of the closed RemoteServer
\* authenticates afterwards: no auth frame on it is answered auth/success or
\* registers a client.
C25_RegenerationInvalidates ==
    [][\A c \in ConnIds :
         /\ (last'.op = "regenerate-auth-token" /\ ws[c] = "open") => ws'[c] # "open"
         /\ (Retired(c) /\ last'.op = "auth" /\ last'.conn = c) =>
                /\ last'.reply # "auth/success"
                /\ clients' = clients]_vars

\* C26: close() leaves no accepted connection open, authenticated or not,
\* and no listener; on a connection of the closed RemoteServer nothing
\* happens afterwards but the end of the socket: no frame on it is handled.
C26_CloseTerminatesAll ==
    [][/\ generation' # generation =>
            /\ wss' = "closed"
            /\ \A c \in ConnIds : ws'[c] # "open"
       /\ \A c \in ConnIds :
            (Retired(c) /\ last'.conn = c) => last'.op = "ws:close"]_vars

\* the chunks of session s in the record of a connection, in the order sent
ChunksOf(log, s) ==
    LET IsChunk(m) == m.type = "pty/data" /\ m.sid = s
        chunks == SelectSeq(log, IsChunk)
    IN  [i \in 1..Len(chunks) |-> chunks[i].n]

\* C27: the chunks of one PTY reach a client in the order the PTY produced
\* them and none twice; and every chunk produced while the client is
\* subscribed and its connection open is sent to it, next after the messages
\* already sent.
C27_ChunksInOrder ==
    /\ [](\A c \in ConnIds, s \in SessionIds :
            \A i \in 1..(Len(ChunksOf(wire[c], s)) - 1) :
                ChunksOf(wire[c], s)[i] < ChunksOf(wire[c], s)[i + 1])
    /\ [][\A c \in ConnIds, s \in SessionIds :
            (/\ last'.op = "pty:data" /\ last'.sid = s
             /\ c \in DOMAIN clients /\ s \in clients[c].sessionSubscriptions
             /\ ws[c] = "open" /\ Len(wire[c]) < MaxWire) =>
                wire'[c] = Append(wire[c], Message("pty/data", s, produced[s] + 1))]_vars

\* a client has been sent the first two chunks of a session, and nothing
\* between them
C27_Witness ==
    \E c \in ConnIds, s \in SessionIds, i \in 1..(MaxWire - 1) :
        /\ i + 1 <= Len(wire[c])
        /\ wire[c][i] = Message("pty/data", s, 1)
        /\ wire[c][i + 1] = Message("pty/data", s, 2)

\* the messages that C28 places behind auth/success
ForwardedEvents == {"pty/data", "pty/exit", "service/status", "service/output"}

\* C28: on every connection, a pty/data, pty/exit, service/status or
\* service/output message is sent only after an auth/success message.
C28_AuthSuccessFirst ==
    \A c \in ConnIds :
        \A i \in 1..Len(wire[c]) :
            wire[c][i].type \in ForwardedEvents =>
                \E j \in 1..(i - 1) : wire[c][j].type = "auth/success"

\* a connection has been sent auth/success, then a chunk, then a service
\* status
C28_Witness ==
    \E c \in ConnIds :
        /\ Len(wire[c]) >= 3
        /\ wire[c][1].type = "auth/success"
        /\ wire[c][2].type = "pty/data"
        /\ wire[c][3].type = "service/status"

\* C29: a service status event is sent to every authenticated client,
\* whatever its serviceSubscriptions; a service output event of service X is
\* sent to the clients whose serviceSubscriptions contains X and to no other;
\* serviceSubscriptions holds ids of registered services only.
C29_ServiceFanout ==
    /\ last.event = "service/status" =>
          last.recipients = {c \in DOMAIN clients : ws[c] = "open"}
    /\ last.event = "service/output" =>
          last.recipients =
              {c \in DOMAIN clients :
                  last.service \in clients[c].serviceSubscriptions /\ ws[c] = "open"}
    /\ \A c \in DOMAIN clients : clients[c].serviceSubscriptions \subseteq RegisteredIds

\* the output of a service has been sent to its subscriber and not to another
\* authenticated client
C29_Witness ==
    /\ last.event = "service/output"
    /\ last.recipients # {}
    /\ \E c \in DOMAIN clients :
          /\ c \notin last.recipients
          /\ ws[c] = "open"
          /\ last.service \notin clients[c].serviceSubscriptions

\* C30: shutdown always completes: once it has begun to stop the services it
\* reaches its last step, with every PTY closed and the Gateway closed,
\* whatever state each service is in.
C30_ShutdownCompletes ==
    (teardown.step = "stopAll") ~>
        (teardown.step = "quit" /\ sessions = {} /\ wss = "closed")

\* C35: a successful auth cancels the auth timer of the connection: the timer
\* of a registered connection is not armed, an authenticated connection that
\* was not closed with 4001 is not closed with 4001 later, and the connection
\* is in the clients map when its auth/success reply has been sent.
C35_AuthCancelsTimer ==
    /\ [](\A c \in DOMAIN clients : authTimer[c] # "armed")
    /\ [](last.reply = "auth/success" => last.conn \in DOMAIN clients)
    /\ [][\A c \in DOMAIN clients :
             closeCode[c] # CloseAuthTimeout => closeCode'[c] # CloseAuthTimeout]_vars

\* a connection has authenticated while its timer was armed
C35_Witness ==
    /\ last.op = "auth"
    /\ last.reply = "auth/success"
    /\ last.conn \in DOMAIN clients
    /\ authTimer[last.conn] = "cleared"
    /\ closeCode[last.conn] = 0

\* C36: a running service stopped with stop(id) stays stopped until it is
\* started explicitly: when the child that a pending stop waits for is
\* terminated by the signal stop sent, the service is stopped and no restart
\* is pending, also with restartOnFailure set.
C36_StopStaysStopped ==
    [][\A id \in RegisteredIds :
         (/\ last'.op = "child:exit"
          /\ last'.service = id
          /\ last'.code = SignalExit
          /\ services[id].timers = 0
          /\ services[id].waiters # <<>>
          /\ \A i \in 1..Len(services[id].waiters) : services[id].waiters[i].kind = "stop")
            => (services'[id].status = "stopped" /\ services'[id].timers = 0)]_vars

\* the handler run that calls startService
StartsService(d) ==
    \/ d.op \in {"service/start", "service/restart", "restartTimer"}
    \/ d.op = "child:exit"

C33_UptimeUndefinedWhenStopped ==
    \A id \in RegisteredIds :
        services[id].status = "stopped" => services[id].uptime = "undefined"

\* C39: for every registered service at most one child spawned by the
\* ServiceManager is alive at any time.
C39_OneChildPerService == \A id \in RegisteredIds : Alive(services[id]) <= 1

\* C34: after a PTY has exited its sessionOwnership entry is gone, and a
\* write, resize or close frame on its id by a connected remote client whose
\* ownedSessions still has the id is answered with 'Access denied'.
C34_ExitedSessionDenied ==
    [][\A c \in ConnIds, s \in SessionIds :
         (/\ last'.conn = c /\ last'.sid = s
          /\ \/ last'.op \in {"pty/write", "pty/close"}
             \/ last'.op = "pty/resize" /\ last'.dims
          /\ c \in DOMAIN clients /\ ws[c] = "open"
          /\ ~clients[c].isLocal
          /\ s \in clients[c].ownedSessions
          /\ s \notin sessions \cup dying
          /\ s \notin DOMAIN sessionOwnership) =>
             last'.reply = "error:denied"]_vars

\* C37: no pty/data and no pty/exit event of a session is sent to a client
\* that is not local and whose deviceId is not the deviceId of the client
\* that created the session.
C37_EventsOnlyToCreatorDevice ==
    last.event \in {"pty/data", "pty/exit"} =>
        \A r \in last.recipients :
            clients[r].isLocal \/ clients[r].deviceId \in creator.by[last.sid]

\* data of a session has been sent to a remote client of the device that
\* created it while a remote client of another device, connected and
\* authenticated, got nothing
C37_Witness ==
    /\ last.event = "pty/data"
    /\ \E r \in last.recipients :
          ~clients[r].isLocal /\ clients[r].deviceId \in creator.by[last.sid]
    /\ \E c \in DOMAIN clients :
          /\ c \notin last.recipients
          /\ ws[c] = "open"
          /\ ~clients[c].isLocal
          /\ clients[c].deviceId \notin creator.by[last.sid]

\* C38: a connection that has not authenticated is sent no pty/data,
\* pty/exit, service/status or service/output, and a frame of it other than a
\* successful auth reaches neither the PTY pool nor a service.
C38_NothingBeforeAuth ==
    [][/\ last'.event \in {"pty/data", "pty/exit", "service/status", "service/output"}
            => \A r \in last'.recipients : r \in DOMAIN clients
       /\ \A c \in ConnIds :
            (last'.conn = c /\ c \notin DOMAIN clients) =>
               /\ last'.pool = "none"
               /\ sessions' = sessions
               /\ managed' = managed
               /\ dying' = dying
               /\ \A id \in RegisteredIds :
                     /\ services'[id].status = services[id].status
                     /\ services'[id].process = services[id].process
                     /\ services'[id].waiters = services[id].waiters]_vars

\* a frame of a connection that is not authenticated has been refused while a
\* session is live and a service runs
C38_Witness ==
    /\ last.op = "frame"
    /\ last.reply = "error:notauth"
    /\ last.conn \notin DOMAIN clients
    /\ sessions # {}
    /\ \E id \in RegisteredIds : services[id].status = "running"

\* C31: the messages queued for a client that does not drain its socket are
\* bounded: the server closes the connection or keeps the queue below a fixed
\* bound. Stated with the bound up to which the count is followed: an open
\* socket never has that many messages queued.
C31_QueueBounded ==
    \A c \in ConnIds : ws[c] = "open" => bufferedAmount.n[c] < MaxBuffered

\* deliveries to the other clients are not stalled: the client that reads is
\* sent every pty/data of a session it subscribes to, whatever is queued
\* for the client that does not read
C31_OthersServed ==
    [][\A c \in ConnIds \ bufferedAmount.stalled, s \in SessionIds :
          (/\ last'.op = "pty:data" /\ last'.sid = s
           /\ c \in DOMAIN clients /\ ws[c] = "open"
           /\ s \in clients[c].sessionSubscriptions) => c \in last'.recipients]_vars



\* C40: after any interleaving of token and certificate regenerations, once
\* no handler is running, exactly one RemoteServer listens, it is the one in
\* PersonalAgent.remoteServer, and its token is the stored one
C40_OneGatewayAfterRegenerations ==
    (\A h \in RegenerateHandlers : handlers[h].pc = "idle") =>
        /\ Cardinality({i \in DOMAIN instances : instances[i].listening}) = 1
        /\ instances[remoteServer].listening
        /\ instances[remoteServer].authToken = storedToken


============================================================================
